---- MODULE Spec2Model ----
(***************************************************************************)
(* Results storage and aggregation subsystem of ts-orm-bench.               *)
(*                                                                         *)
(* The file system under benchmark-results/ is modelled as finite maps:    *)
(*   metadataFiles   runs/{runId}/metadata.json                            *)
(*   resultFiles     runs/{runId}/{ormId}/{category}/{scenarioId}.json     *)
(*   runsIndex       metadata/runs-index.json                              *)
(*   byOrm, byScenario, byCategory   aggregated/by-*/{key}.json            *)
(*   ormComparisons, latestComparison                                      *)
(*                   aggregated/comparisons/orm-comparisons/*.json         *)
(*   timelines       aggregated/comparisons/historical/                    *)
(*                   {ormId}-timeline.json                                 *)
(*   versionComparisons                                                    *)
(*                   aggregated/comparisons/version-comparisons/*.json     *)
(*   uiComparisons   ui-data/comparisons/*.json                            *)
(* Time is a millisecond clock scaled so that one second has MsPerSecond   *)
(* ticks.  Latencies and throughputs are positive integers; a percentage   *)
(* is kept as the exact fraction num/den (floating-point rounding is not   *)
(* modelled).  readdir returns names in the fixed orders OrmOrder,         *)
(* CatOrder and ScenOrder.  calls counts the calls made by the caller of   *)
(* the aggregator, the tracker, the comparator and the storage manager.    *)
(***************************************************************************)
EXTENDS Integers, Sequences, FiniteSets, TLC

VARIABLES now, currentRunId, currentRunMetadata, metadataFiles, resultFiles,
          runsIndex, byOrm, byScenario, byCategory, ormComparisons,
          latestComparison, timelines, versionComparisons, uiComparisons,
          lastOp, calls

vars == <<now, currentRunId, currentRunMetadata, metadataFiles, resultFiles,
          runsIndex, byOrm, byScenario, byCategory, ormComparisons,
          latestComparison, timelines, versionComparisons, uiComparisons,
          lastOp, calls>>

ledgerVars == <<currentRunId, currentRunMetadata, metadataFiles, resultFiles,
                runsIndex>>

aggVars == <<byOrm, byScenario, byCategory>>

cmpVars == <<ormComparisons, latestComparison>>

trackerVars == <<timelines, versionComparisons>>

uiVars == <<uiComparisons>>

----------------------------------------------------------------------------
(* Bounds and input domains *)

MaxClock == 2

MsPerSecond == 2

MaxSaves == 2

MaxLat == 3

MaxFiles == 3

MaxLedgerFiles == 2

MaxTicks == 1

MaxCalls == 2

OrmOrder == <<"a", "b", "c", "p-v1", "p-v2">>

CatOrder == <<"crud", "read">>

ScenOrder == <<"s1", "s2">>

Range(s) == {s[i] : i \in DOMAIN s}

ORMs == Range(OrmOrder)

Categories == Range(CatOrder)

Scenarios == Range(ScenOrder)

LedgerKeys == {<<"a", "crud", "s1">>, <<"a", "read", "s1">>,
               <<"b", "crud", "s1">>}

OrmIdLists == {<<>>, <<"a", "b">>}

ScenarioIdLists == {<<>>, <<"s1">>}

EndStatus == {"completed", "failed"}

TerminalStatus == {"completed", "failed", "partial"}

NoRun == -1

NoTime == <<>>

Abs(x) == IF x < 0 THEN -x ELSE x

Put(f, k, v) == [x \in DOMAIN f \cup {k} |-> IF x = k THEN v ELSE f[x]]

EmptyMap == [x \in {} |-> 0]

RECURSIVE SumSeq(_)
SumSeq(s) == IF s = <<>> THEN 0 ELSE Head(s) + SumSeq(Tail(s))

MapSeq(s, F(_)) == [i \in DOMAIN s |-> F(s[i])]

RECURSIVE Flatten(_)
Flatten(ss) == IF ss = <<>> THEN <<>> ELSE Head(ss) \o Flatten(Tail(ss))

RECURSIVE SeqOfSet(_)
SeqOfSet(S) ==
  IF S = {} THEN <<>>
  ELSE LET m == CHOOSE x \in S : \A y \in S : x <= y
       IN  <<m>> \o SeqOfSet(S \ {m})

Reverse(s) == [i \in DOMAIN s |-> s[Len(s) + 1 - i]]

(* Array.from(new Set(xs)): first occurrences, in order *)
RECURSIVE Unique(_)
Unique(s) ==
  IF s = <<>> THEN <<>>
  ELSE LET rest == Unique(SubSeq(s, 1, Len(s) - 1))
           x == s[Len(s)]
       IN  IF x \in Range(rest) THEN rest ELSE Append(rest, x)

----------------------------------------------------------------------------
(* Dates, run identifiers, metrics *)

toISOString(d) == <<d \div MsPerSecond, d % MsPerSecond>>

getTime(iso) == iso[1] * MsPerSecond + iso[2]

generateRunId(d) == d \div MsPerSecond

MkMetrics(m, r, e) ==
  [median |-> m, p95 |-> m + 1, p99 |-> m + 2, rps |-> r,
   errors |-> e, totalRequests |-> 1]

LedgerMetrics == {MkMetrics(1 + e, 1, e) : e \in 0..1}

CmpMetrics == {MkMetrics(m, MaxLat + 1 - m, 0) : m \in 1..MaxLat}

NoMetadata ==
  [runId |-> NoRun, timestamp |-> NoTime, startTime |-> NoTime,
   endTime |-> NoTime, duration |-> 0, status |-> "none",
   testedORMs |-> <<>>,
   summary |-> [totalScenarios |-> 0, totalMeasurements |-> 0,
                successfulTests |-> 0, failedTests |-> 0]]

NoDoc == [none |-> TRUE]

NoOp == [name |-> "none", ok |-> TRUE, run |-> NoRun, key |-> <<>>,
         overwrote |-> FALSE]

Op(n, o, r, k, w) == [name |-> n, ok |-> o, run |-> r, key |-> k,
                      overwrote |-> w]

----------------------------------------------------------------------------
(* Run ledger and measurement store *)

ResultPath_noCategory(runId, ormId, category, scenarioId) ==
  <<runId, ormId, CatOrder[1], scenarioId>>

ResultPath(runId, ormId, category, scenarioId) ==
  <<runId, ormId, category, scenarioId>>

RunDirs(meta, files) == DOMAIN meta \cup {k[1] : k \in DOMAIN files}

listRuns(meta, files) == Reverse(SeqOfSet(RunDirs(meta, files)))

loadRunMetadata(meta, runId) ==
  IF runId \in DOMAIN meta THEN meta[runId] ELSE NoMetadata

InitialRunMetadata(runId, d) ==
  [runId |-> runId, timestamp |-> toISOString(d),
   startTime |-> toISOString(d), endTime |-> NoTime, duration |-> 0,
   status |-> "running", testedORMs |-> <<>>,
   summary |-> [totalScenarios |-> 0, totalMeasurements |-> 0,
                successfulTests |-> 0, failedTests |-> 0]]

Duration_wholeSeconds(startTime, endTime) ==
  (endTime[1] - startTime[1]) * MsPerSecond

Duration(startTime, endTime) == getTime(endTime) - getTime(startTime)

NewOrmSummary(ormId) ==
  [ormId |-> ormId, scenariosRun |-> 0, scenariosSucceeded |-> 0,
   scenariosFailed |-> 0]

updateRunMetadata_alwaysPush(md, ormId, metrics) ==
  LET rows == Append(md.testedORMs, NewOrmSummary(ormId))
      idx == Len(rows)
      okRun == metrics.errors = 0
      row == [rows[idx] EXCEPT
                !.scenariosRun = @ + 1,
                !.scenariosSucceeded = IF okRun THEN @ + 1 ELSE @,
                !.scenariosFailed = IF okRun THEN @ ELSE @ + 1]
  IN  [md EXCEPT
         !.testedORMs = [rows EXCEPT ![idx] = row],
         !.summary.successfulTests = IF okRun THEN @ + 1 ELSE @,
         !.summary.failedTests = IF okRun THEN @ ELSE @ + 1,
         !.summary.totalScenarios = @ + 1,
         !.summary.totalMeasurements = @ + metrics.totalRequests]

updateRunMetadata(md, ormId, metrics) ==
  LET found == {i \in DOMAIN md.testedORMs : md.testedORMs[i].ormId = ormId}
      rows == IF found = {} THEN Append(md.testedORMs, NewOrmSummary(ormId))
              ELSE md.testedORMs
      idx == CHOOSE i \in DOMAIN rows :
               /\ rows[i].ormId = ormId
               /\ \A j \in DOMAIN rows : rows[j].ormId = ormId => i <= j
      okRun == metrics.errors = 0
      row == [rows[idx] EXCEPT
                !.scenariosRun = @ + 1,
                !.scenariosSucceeded = IF okRun THEN @ + 1 ELSE @,
                !.scenariosFailed = IF okRun THEN @ ELSE @ + 1]
  IN  [md EXCEPT
         !.testedORMs = [rows EXCEPT ![idx] = row],
         !.summary.successfulTests = IF okRun THEN @ + 1 ELSE @,
         !.summary.failedTests = IF okRun THEN @ ELSE @ + 1,
         !.summary.totalScenarios = @ + 1,
         !.summary.totalMeasurements = @ + metrics.totalRequests]

MkResult(runId, ormId, category, scenarioId, metrics, d) ==
  [metadata |-> [runId |-> runId, timestamp |-> toISOString(d),
                 ormId |-> ormId, scenarioId |-> scenarioId,
                 scenarioCategory |-> category,
                 success |-> (metrics.errors = 0)],
   metrics |-> metrics]

(* fs.readdir order of runs/{runId}/{ormId}: categories, then scenario files *)
OrmKeySeq(runId, ormId) ==
  [i \in 1..(Len(CatOrder) * Len(ScenOrder)) |->
     <<runId, ormId, CatOrder[((i - 1) \div Len(ScenOrder)) + 1],
       ScenOrder[((i - 1) % Len(ScenOrder)) + 1]>>]

loadORMResultsFromRun(files, runId, ormId) ==
  MapSeq(SelectSeq(OrmKeySeq(runId, ormId), LAMBDA k : k \in DOMAIN files),
         LAMBDA k : files[k])

loadAllResultsFromRun(files, runId) ==
  Flatten(MapSeq(OrmOrder, LAMBDA o : loadORMResultsFromRun(files, runId, o)))

loadResult(files, runId, ormId, category, scenarioId) ==
  LET path == <<runId, ormId, category, scenarioId>>
  IN  IF path \in DOMAIN files THEN <<files[path]>> ELSE <<>>


RunIndexEntry(md) ==
  [runId |-> md.runId, timestamp |-> md.timestamp, status |-> md.status,
   orms |-> MapSeq(md.testedORMs, LAMBDA o : o.ormId),
   scenarios |-> md.summary.totalScenarios, duration |-> md.duration]

BuildRunsIndex(meta, files, d) ==
  LET runs == listRuns(meta, files)
      loaded == SelectSeq(runs, LAMBDA r : r \in DOMAIN meta)
      entries == MapSeq(loaded, LAMBDA r : RunIndexEntry(meta[r]))
  IN  [runs |-> entries, totalRuns |-> Len(entries),
       oldestRun |-> IF Len(entries) > 0 THEN entries[Len(entries)].runId
                     ELSE NoRun,
       newestRun |-> IF Len(entries) > 0 THEN entries[1].runId ELSE NoRun,
       lastUpdated |-> toISOString(d)]

Tick ==
  /\ now < MaxClock
  /\ now' = now + 1
  /\ UNCHANGED <<ledgerVars, aggVars, cmpVars, trackerVars, uiVars, lastOp,
                 calls>>

(* ormIds is not used by the body; scenarioIds goes only to the
   configuration block of the metadata, which the model leaves out *)
startRun(ormIds, scenarioIds) ==
  LET runId == generateRunId(now)
      md == InitialRunMetadata(runId, now)
  IN  /\ currentRunId' = runId
      /\ currentRunMetadata' = md
      /\ metadataFiles' = Put(metadataFiles, runId, md)
      /\ lastOp' = Op("startRun", TRUE, runId, <<ormIds, scenarioIds>>,
                      runId \in RunDirs(metadataFiles, resultFiles))
      /\ UNCHANGED <<now, resultFiles, runsIndex, aggVars, cmpVars>>

endRun_failedLeftRunning(status) ==
  IF currentRunId = NoRun \/ currentRunMetadata = NoMetadata
  THEN /\ lastOp' = Op("endRun", FALSE, NoRun, <<>>, FALSE)
       /\ UNCHANGED <<now, ledgerVars, aggVars, cmpVars>>
  ELSE LET endTime == toISOString(now)
           md == [currentRunMetadata EXCEPT
                    !.endTime = endTime,
                    !.duration = Duration(currentRunMetadata.startTime,
                                          endTime),
                    !.status = IF status = "failed" THEN "running"
                                ELSE status]
           meta == Put(metadataFiles, currentRunId, md)
       IN  /\ metadataFiles' = meta
           /\ runsIndex' = BuildRunsIndex(meta, resultFiles, now)
           /\ currentRunId' = NoRun
           /\ currentRunMetadata' = NoMetadata
           /\ lastOp' = Op("endRun", TRUE, currentRunId, <<>>, FALSE)
           /\ UNCHANGED <<now, resultFiles, aggVars, cmpVars>>

endRun(status) ==
  IF currentRunId = NoRun \/ currentRunMetadata = NoMetadata
  THEN /\ lastOp' = Op("endRun", FALSE, NoRun, <<>>, FALSE)
       /\ UNCHANGED <<now, ledgerVars, aggVars, cmpVars>>
  ELSE LET endTime == toISOString(now)
           md == [currentRunMetadata EXCEPT
                    !.endTime = endTime,
                    !.duration = Duration(currentRunMetadata.startTime,
                                          endTime),
                    !.status = status]
           meta == Put(metadataFiles, currentRunId, md)
       IN  /\ metadataFiles' = meta
           /\ runsIndex' = BuildRunsIndex(meta, resultFiles, now)
           /\ currentRunId' = NoRun
           /\ currentRunMetadata' = NoMetadata
           /\ lastOp' = Op("endRun", TRUE, currentRunId, <<>>, FALSE)
           /\ UNCHANGED <<now, resultFiles, aggVars, cmpVars>>

saveResult_noGuard(ormId, scenarioId, scenarioCategory, metrics) ==
  LET runId == currentRunId
      path == ResultPath(runId, ormId, scenarioCategory, scenarioId)
      result == MkResult(runId, ormId, scenarioCategory, scenarioId,
                         metrics, now)
      md == IF currentRunMetadata = NoMetadata THEN NoMetadata
            ELSE updateRunMetadata(currentRunMetadata, ormId, metrics)
  IN  /\ resultFiles' = Put(resultFiles, path, result)
      /\ currentRunMetadata' = md
      /\ metadataFiles' = IF currentRunId = NoRun THEN metadataFiles
                          ELSE Put(metadataFiles, runId, md)
      /\ lastOp' = Op("saveResult", TRUE, runId,
                      <<ormId, scenarioCategory, scenarioId>>,
                      path \in DOMAIN resultFiles)
      /\ UNCHANGED <<now, currentRunId, runsIndex, aggVars, cmpVars>>

saveResult(ormId, scenarioId, scenarioCategory, metrics) ==
  IF currentRunId = NoRun
  THEN /\ lastOp' = Op("saveResult", FALSE, NoRun,
                       <<ormId, scenarioCategory, scenarioId>>, FALSE)
       /\ UNCHANGED <<now, ledgerVars, aggVars, cmpVars>>
  ELSE LET runId == currentRunId
           path == ResultPath(runId, ormId, scenarioCategory, scenarioId)
           result == MkResult(runId, ormId, scenarioCategory, scenarioId,
                              metrics, now)
           md == updateRunMetadata(currentRunMetadata, ormId, metrics)
       IN  /\ resultFiles' = Put(resultFiles, path, result)
           /\ currentRunMetadata' = md
           /\ metadataFiles' = Put(metadataFiles, runId, md)
           /\ lastOp' = Op("saveResult", TRUE, runId,
                           <<ormId, scenarioCategory, scenarioId>>,
                           path \in DOMAIN resultFiles)
           /\ UNCHANGED <<now, currentRunId, runsIndex, aggVars, cmpVars>>

StartRun ==
  /\ \E ormIds \in OrmIdLists, scenarioIds \in ScenarioIdLists :
       startRun(ormIds, scenarioIds)
  /\ UNCHANGED <<trackerVars, uiVars, calls>>

EndRun ==
  /\ \E status \in EndStatus : endRun(status)
  /\ UNCHANGED <<trackerVars, uiVars, calls>>

SaveResult ==
  /\ UNCHANGED <<trackerVars, uiVars, calls>>
  /\ currentRunMetadata.summary.totalScenarios < MaxSaves
  /\ \E k \in LedgerKeys, metrics \in LedgerMetrics :
       /\ \/ currentRunId = NoRun
          \/ ResultPath(currentRunId, k[1], k[2], k[3]) \in DOMAIN resultFiles
          \/ Cardinality(DOMAIN resultFiles) < MaxLedgerFiles
       /\ saveResult(k[1], k[3], k[2], metrics)

Init ==
  /\ now = 0
  /\ currentRunId = NoRun
  /\ currentRunMetadata = NoMetadata
  /\ metadataFiles = EmptyMap
  /\ resultFiles = EmptyMap
  /\ runsIndex = NoDoc
  /\ byOrm = EmptyMap
  /\ byScenario = EmptyMap
  /\ byCategory = EmptyMap
  /\ ormComparisons = EmptyMap
  /\ latestComparison = NoDoc
  /\ timelines = EmptyMap
  /\ versionComparisons = EmptyMap
  /\ uiComparisons = EmptyMap
  /\ lastOp = NoOp
  /\ calls = 0

Next == Tick \/ StartRun \/ EndRun \/ SaveResult

Spec == Init /\ [][Next]_vars

----------------------------------------------------------------------------
(* Stores left behind by finished runs: the initial states of the
   aggregation and comparison specifications.  Every file sits where
   saveResult puts it and every run has the metadata.json that saving its
   files once, in directory order, and endRun('completed') leave. *)

StoreRunIds == {0, 1}

StoreClock == (1 + 1) * MsPerSecond

CmpPaths == {<<"a", "crud", "s1">>, <<"a", "read", "s1">>,
             <<"b", "crud", "s1">>, <<"b", "crud", "s2">>,
             <<"c", "crud", "s1">>}

AggPaths == {<<"a", "crud", "s1">>, <<"a", "read", "s1">>,
             <<"b", "crud", "s1">>, <<"b", "crud", "s2">>}

AggMetrics == {MkMetrics(m, 1, m - 1) : m \in 1..2}

RECURSIVE SubsetsUpTo(_, _)
SubsetsUpTo(S, n) ==
  IF n = 0 THEN {{}}
  ELSE LET prev == SubsetsUpTo(S, n - 1)
       IN  prev \cup {T \cup {x} : T \in prev, x \in S}

StoreKeys(paths) ==
  {ResultPath(r, p[1], p[2], p[3]) : r \in StoreRunIds, p \in paths}

StoreOf(K, f) ==
  [k \in K |-> MkResult(k[1], k[2], k[3], k[4], f[k], k[1] * MsPerSecond)]

Stores(paths, metricsSet, maxFiles) ==
  UNION {{StoreOf(K, f) : f \in [K -> metricsSet]} :
           K \in SubsetsUpTo(StoreKeys(paths), maxFiles)}

RECURSIVE FoldSaves(_, _)
FoldSaves(md, results) ==
  IF results = <<>> THEN md
  ELSE FoldSaves(updateRunMetadata(md, Head(results).metadata.ormId,
                                   Head(results).metrics),
                 Tail(results))

FinishedRunMetadata(files, runId) ==
  LET d == runId * MsPerSecond
      md == FoldSaves(InitialRunMetadata(runId, d),
                      loadAllResultsFromRun(files, runId))
  IN  [md EXCEPT !.endTime = toISOString(d),
                 !.duration = Duration(md.startTime, toISOString(d)),
                 !.status = "completed"]

StoreMetadata(files) ==
  [r \in {k[1] : k \in DOMAIN files} |-> FinishedRunMetadata(files, r)]

StoreInit(files) ==
  /\ now = StoreClock
  /\ currentRunId = NoRun
  /\ currentRunMetadata = NoMetadata
  /\ resultFiles = files
  /\ metadataFiles = StoreMetadata(files)
  /\ runsIndex = IF files = EmptyMap THEN NoDoc
                 ELSE LET last == CHOOSE r \in DOMAIN StoreMetadata(files) :
                                    \A q \in DOMAIN StoreMetadata(files) :
                                      q <= r
                      IN  BuildRunsIndex(StoreMetadata(files), files,
                                         last * MsPerSecond)
  /\ byOrm = EmptyMap
  /\ byScenario = EmptyMap
  /\ byCategory = EmptyMap
  /\ ormComparisons = EmptyMap
  /\ latestComparison = NoDoc
  /\ timelines = EmptyMap
  /\ versionComparisons = EmptyMap
  /\ uiComparisons = EmptyMap
  /\ lastOp = NoOp
  /\ calls = 0

Tock ==
  /\ now < StoreClock + MaxTicks
  /\ now' = now + 1
  /\ UNCHANGED <<ledgerVars, aggVars, cmpVars, trackerVars, uiVars, lastOp,
                 calls>>

----------------------------------------------------------------------------
(* Comparator: ComparisonGenerator.generateORMComparison *)

CG_loadAllResultsFromRun(files, runId) ==
  Flatten(MapSeq(OrmOrder,
                 LAMBDA o : MapSeq(SelectSeq(OrmKeySeq(runId, o),
                                             LAMBDA k : k \in DOMAIN files),
                                   LAMBDA k : files[k])))

(* Array.prototype.sort by ascending median: stable insertion *)
InsertByLatency(sorted, r) ==
  LET n == Cardinality({i \in DOMAIN sorted :
                          sorted[i].metrics.median <= r.metrics.median})
  IN  SubSeq(sorted, 1, n) \o <<r>> \o SubSeq(sorted, n + 1, Len(sorted))

RECURSIVE SortByLatency(_)
SortByLatency(results) ==
  IF results = <<>> THEN <<>>
  ELSE InsertByLatency(SortByLatency(SubSeq(results, 1, Len(results) - 1)),
                       results[Len(results)])

calculateDifference(baseline, comparison) ==
  [absolute |-> Abs(comparison - baseline),
   percentage |-> [num |-> Abs((comparison - baseline) * 100),
                   den |-> Abs(baseline)]]

ComparisonPartner(sortedByLatency) == sortedByLatency[2]

ResultEntry(r) ==
  [ormId |-> r.metadata.ormId, metrics |-> r.metrics,
   timestamp |-> r.metadata.timestamp, runId |-> r.metadata.runId]

compareScenario(results) ==
  LET firstResult == results[1]
      sortedByLatency == SortByLatency(results)
      winner == sortedByLatency[1]
      baseline == sortedByLatency[1]
      comparison == ComparisonPartner(sortedByLatency)
      diff(f, who) ==
        LET d == calculateDifference(baseline.metrics[f],
                                     comparison.metrics[f])
        IN  [absolute |-> d.absolute, percentage |-> d.percentage,
             faster |-> who]
  IN  [scenarioId |-> firstResult.metadata.scenarioId,
       category |-> firstResult.metadata.scenarioCategory,
       winner |-> [ormId |-> winner.metadata.ormId, reason |-> "latency_p50"],
       results |-> MapSeq(results, ResultEntry),
       comparison |->
         [latencyDiff |-> [p50 |-> diff("median", baseline.metadata.ormId),
                           p95 |-> diff("p95", baseline.metadata.ormId),
                           p99 |-> diff("p99", baseline.metadata.ormId)],
          throughputDiff |->
            LET d == calculateDifference(baseline.metrics.rps,
                                         comparison.metrics.rps)
            IN  [absolute |-> d.absolute, percentage |-> d.percentage,
                 higher |-> baseline.metadata.ormId]]]

WinCount(scenarios, ormId) ==
  Cardinality({i \in DOMAIN scenarios : scenarios[i].winner.ormId = ormId})

(* winCounts.forEach: the first library, in insertion order, whose count is
   strictly greater than every count before it and nowhere exceeded *)
RECURSIVE FindMaxWins(_, _, _, _)
FindMaxWins(scenarios, orms, maxWins, winnerId) ==
  IF orms = <<>> THEN [ormId |-> winnerId, wins |-> maxWins]
  ELSE LET w == WinCount(scenarios, Head(orms))
       IN  IF w > maxWins
           THEN FindMaxWins(scenarios, Tail(orms), w, Head(orms))
           ELSE FindMaxWins(scenarios, Tail(orms), maxWins, winnerId)

calculateOverallWinner(scenarios, orms) ==
  LET found == FindMaxWins(scenarios, orms, 0, "")
      cats == Unique(MapSeq(scenarios, LAMBDA sc : sc.category))
      catRow(c) ==
        LET inCat == {i \in DOMAIN scenarios : scenarios[i].category = c}
            won == {i \in inCat : scenarios[i].winner.ormId = found.ormId}
        IN  [category |-> c, wins |-> Cardinality(won),
             losses |-> Cardinality(inCat) - Cardinality(won), ties |-> 0]
  IN  [ormId |-> found.ormId, winsCount |-> found.wins, tiesCount |-> 0,
       lossesCount |-> Len(scenarios) - found.wins,
       categories |-> IF found.ormId \in Range(orms)
                      THEN MapSeq(cats, catRow) ELSE <<>>]

(* averagePerformanceDiff (a float mean, NaN when no scenario is compared)
   is left out of the summary *)
calculateComparisonSummary(scenarios) ==
  [totalScenarios |-> Len(scenarios),
   categoriesCompared |-> Unique(MapSeq(scenarios, LAMBDA sc : sc.category)),
   significantDifferences |->
     Cardinality({i \in DOMAIN scenarios :
        scenarios[i].comparison.latencyDiff.p50.percentage.num
          > 10 * scenarios[i].comparison.latencyDiff.p50.percentage.den})]

TooFewORMs_lessThanOne(orms) == Len(orms) < 1

TooFewORMs(orms) == Len(orms) < 2

BuildORMComparison(results, runId, d) ==
  LET orms == Unique(MapSeq(results, LAMBDA r : r.metadata.ormId))
      scenarioIds == Unique(MapSeq(results, LAMBDA r : r.metadata.scenarioId))
      scenarioResults(sid) ==
        SelectSeq(results, LAMBDA r : r.metadata.scenarioId = sid)
      compared == SelectSeq(scenarioIds,
                            LAMBDA sid : ~(Len(scenarioResults(sid)) < 2))
      scenarioComparisons ==
        MapSeq(compared, LAMBDA sid : compareScenario(scenarioResults(sid)))
  IN  [comparisonId |-> <<runId, "orm-comparison">>,
       generated |-> toISOString(d),
       baselineRun |-> runId,
       orms |-> orms,
       scenarios |-> scenarioComparisons,
       overallWinner |-> calculateOverallWinner(scenarioComparisons, orms),
       summary |-> calculateComparisonSummary(scenarioComparisons)]

generateORMComparison(runId) ==
  LET results == CG_loadAllResultsFromRun(resultFiles, runId)
      orms == Unique(MapSeq(results, LAMBDA r : r.metadata.ormId))
  IN  /\ lastOp' = Op("generateORMComparison", TRUE, runId, <<>>, FALSE)
      /\ IF Len(results) = 0 \/ TooFewORMs(orms)
         THEN UNCHANGED cmpVars
         ELSE LET doc == BuildORMComparison(results, runId, now)
              IN  /\ ormComparisons' = Put(ormComparisons, runId, doc)
                  /\ latestComparison' = doc
      /\ UNCHANGED <<now, ledgerVars, aggVars>>

GenerateORMComparison ==
  /\ \E runId \in StoreRunIds : generateORMComparison(runId)
  /\ UNCHANGED <<trackerVars, uiVars, calls>>

InitCmp == \E files \in Stores(CmpPaths, CmpMetrics, MaxFiles) : StoreInit(files)

NextCmp == Tock \/ GenerateORMComparison

SpecCmp == InitCmp /\ [][NextCmp]_vars

(* The comparator over one stored run in which two libraries measured up to
   two scenarios each *)
WinPaths == {<<"a", "crud", "s1">>, <<"a", "crud", "s2">>,
             <<"b", "crud", "s1">>, <<"b", "crud", "s2">>}

WinStores ==
  UNION {{StoreOf(K, f) : f \in [K -> CmpMetrics]} :
           K \in SUBSET {ResultPath(1, p[1], p[2], p[3]) : p \in WinPaths}}

InitWin == \E files \in WinStores : StoreInit(files)

SpecWin == InitWin /\ [][NextCmp]_vars

----------------------------------------------------------------------------
(* Aggregator: ResultsStorage.aggregateByORM / ByScenario / ByCategory *)

getLatestRunId(meta, files) ==
  IF Len(listRuns(meta, files)) > 0 THEN listRuns(meta, files)[1] ELSE NoRun

(* runId || (await this.getLatestRunId()); NoRun stands for an omitted runId *)
TargetRunId(runId) ==
  IF runId # NoRun THEN runId ELSE getLatestRunId(metadataFiles, resultFiles)

(* readdir(ormDir), then readFile of {category}/{scenarioId}.json *)
loadScenarioResultsFromRun(files, runId, scenarioId) ==
  Flatten(MapSeq(OrmOrder, LAMBDA o :
    MapSeq(SelectSeq(OrmKeySeq(runId, o),
                     LAMBDA k : k[4] = scenarioId /\ k \in DOMAIN files),
           LAMBDA k : files[k])))

Mean(xs) == [num |-> SumSeq(xs), den |-> Len(xs)]

calculateOverallStats(scenarios) ==
  IF Len(scenarios) = 0
  THEN [totalScenarios |-> 0, totalRuns |-> 0,
        averageLatencyP50 |-> [num |-> 0, den |-> 1],
        averageLatencyP95 |-> [num |-> 0, den |-> 1],
        averageThroughput |-> [num |-> 0, den |-> 1], totalErrors |-> 0]
  ELSE [totalScenarios |-> Len(scenarios),
        totalRuns |-> SumSeq(MapSeq(scenarios, LAMBDA x : x.runCount)),
        averageLatencyP50 |->
          Mean(MapSeq(scenarios, LAMBDA x : x.metrics.median)),
        averageLatencyP95 |-> Mean(MapSeq(scenarios, LAMBDA x : x.metrics.p95)),
        averageThroughput |-> Mean(MapSeq(scenarios, LAMBDA x : x.metrics.rps)),
        totalErrors |-> SumSeq(MapSeq(scenarios, LAMBDA x : x.metrics.errors))]

loadHistoricalData_previousAggregate(ormId) ==
  IF ormId \in DOMAIN byOrm
  THEN Append(byOrm[ormId].history,
              [timestamp |-> byOrm[ormId].lastTested,
               overallStats |-> byOrm[ormId].overallStats])
  ELSE <<>>

loadHistoricalData(ormId) == <<>>

(* scenarioMap.set(scenarioId, result): first-insertion order, last value *)
LastByScenario(results) ==
  LET sids == Unique(MapSeq(results, LAMBDA r : r.metadata.scenarioId))
      lastWith(sid) ==
        results[CHOOSE i \in DOMAIN results :
                  /\ results[i].metadata.scenarioId = sid
                  /\ \A j \in DOMAIN results :
                       results[j].metadata.scenarioId = sid => j <= i]
  IN  MapSeq(sids, lastWith)

ScenarioSummary(result) ==
  [scenarioId |-> result.metadata.scenarioId,
   category |-> result.metadata.scenarioCategory,
   metrics |-> result.metrics, runCount |-> 1,
   lastRun |-> result.metadata.timestamp]

BuildByORM(ormId, results, d) ==
  LET scenarios == MapSeq(LastByScenario(results), ScenarioSummary)
      history == loadHistoricalData(ormId)
  IN  [ormId |-> ormId,
       scenarios |-> scenarios,
       overallStats |-> calculateOverallStats(scenarios),
       history |-> history,
       firstSeen |-> IF Len(history) > 0 THEN history[1].timestamp
                     ELSE results[1].metadata.timestamp,
       lastTested |-> results[1].metadata.timestamp,
       totalRuns |-> Len(history) + 1,
       generated |-> toISOString(d)]

aggregateByORM(ormId, runId) ==
  LET targetRunId == TargetRunId(runId)
      results == loadORMResultsFromRun(resultFiles, targetRunId, ormId)
  IN  /\ lastOp' = Op("aggregateByORM", TRUE, runId, <<ormId>>,
                      ormId \in DOMAIN byOrm)
      /\ IF targetRunId = NoRun \/ Len(results) = 0
         THEN byOrm' = byOrm
         ELSE byOrm' = Put(byOrm, ormId, BuildByORM(ormId, results, now))
      /\ UNCHANGED <<now, ledgerVars, byScenario, byCategory, cmpVars>>

BuildByScenario(scenarioId, results, d) ==
  [scenarioId |-> scenarioId,
   category |-> results[1].metadata.scenarioCategory,
   ormResults |-> MapSeq(results, ResultEntry),
   lastUpdated |-> toISOString(d),
   totalRuns |-> 1]

aggregateByScenario(scenarioId, runId) ==
  LET targetRunId == TargetRunId(runId)
      results == loadScenarioResultsFromRun(resultFiles, targetRunId,
                                            scenarioId)
  IN  /\ lastOp' = Op("aggregateByScenario", TRUE, runId, <<scenarioId>>,
                      scenarioId \in DOMAIN byScenario)
      /\ IF targetRunId = NoRun \/ Len(results) = 0
         THEN byScenario' = byScenario
         ELSE byScenario' = Put(byScenario, scenarioId,
                                BuildByScenario(scenarioId, results, now))
      /\ UNCHANGED <<now, ledgerVars, byOrm, byCategory, cmpVars>>

CategoryOrmStats(ormId, results) ==
  [ormId |-> ormId, scenarioCount |-> Len(results),
   averageLatencyP50 |-> Mean(MapSeq(results, LAMBDA r : r.metrics.median)),
   averageLatencyP95 |-> Mean(MapSeq(results, LAMBDA r : r.metrics.p95)),
   averageThroughput |-> Mean(MapSeq(results, LAMBDA r : r.metrics.rps)),
   totalRuns |-> Len(results)]

(* the AggregatedCategoryResult object; ormResults is a Map in library
   insertion order *)
BuildByCategory(category, categoryResults, d) ==
  LET ormIds == Unique(MapSeq(categoryResults, LAMBDA r : r.metadata.ormId))
      of(o) == SelectSeq(categoryResults, LAMBDA r : r.metadata.ormId = o)
  IN  [category |-> category,
       scenarios |->
         Unique(MapSeq(categoryResults, LAMBDA r : r.metadata.scenarioId)),
       ormResults |-> MapSeq(ormIds, LAMBDA o : CategoryOrmStats(o, of(o))),
       lastUpdated |-> toISOString(d)]

(* JSON.stringify of the object: a Map has no enumerable properties and is
   written as {} *)
StringifyByCategory(aggregated) == [aggregated EXCEPT !.ormResults = <<>>]

aggregateByCategory_alwaysWrites(category, runId) ==
  LET targetRunId == TargetRunId(runId)
      allResults == loadAllResultsFromRun(resultFiles, targetRunId)
      categoryResults ==
        SelectSeq(allResults,
                  LAMBDA r : r.metadata.scenarioCategory = category)
  IN  /\ lastOp' = Op("aggregateByCategory", TRUE, runId, <<category>>,
                      category \in DOMAIN byCategory)
      /\ IF targetRunId = NoRun
         THEN byCategory' = byCategory
         ELSE byCategory' =
                Put(byCategory, category,
                    StringifyByCategory(
                      BuildByCategory(category, categoryResults, now)))
      /\ UNCHANGED <<now, ledgerVars, byOrm, byScenario, cmpVars>>

aggregateByCategory(category, runId) ==
  LET targetRunId == TargetRunId(runId)
      allResults == loadAllResultsFromRun(resultFiles, targetRunId)
      categoryResults ==
        SelectSeq(allResults,
                  LAMBDA r : r.metadata.scenarioCategory = category)
  IN  /\ lastOp' = Op("aggregateByCategory", TRUE, runId, <<category>>,
                      category \in DOMAIN byCategory)
      /\ IF targetRunId = NoRun \/ Len(categoryResults) = 0
         THEN byCategory' = byCategory
         ELSE byCategory' =
                Put(byCategory, category,
                    StringifyByCategory(
                      BuildByCategory(category, categoryResults, now)))
      /\ UNCHANGED <<now, ledgerVars, byOrm, byScenario, cmpVars>>

RunArgs == StoreRunIds \cup {NoRun}

AggORMs == {p[1] : p \in AggPaths}

(* the caller makes at most MaxCalls calls *)
CountCall == calls < MaxCalls /\ calls' = calls + 1

CountAggregatorCall == CountCall /\ UNCHANGED <<trackerVars, uiVars>>

AggregateByORM ==
  /\ CountAggregatorCall
  /\ \E ormId \in AggORMs, runId \in RunArgs : aggregateByORM(ormId, runId)

AggregateByScenario ==
  /\ CountAggregatorCall
  /\ \E scenarioId \in Scenarios, runId \in RunArgs :
       aggregateByScenario(scenarioId, runId)

AggregateByCategory ==
  /\ CountAggregatorCall
  /\ \E category \in Categories, runId \in RunArgs :
       aggregateByCategory(category, runId)

InitAgg == \E files \in Stores(AggPaths, AggMetrics, MaxFiles) : StoreInit(files)

NextAgg == Tock \/ AggregateByORM \/ AggregateByScenario \/ AggregateByCategory

SpecAgg == InitAgg /\ [][NextAgg]_vars

----------------------------------------------------------------------------
(* Historical tracker: HistoricalTracker.updateORMTimeline *)

HT_loadORMResultsFromRun(files, runId, ormId) ==
  MapSeq(SelectSeq(OrmKeySeq(runId, ormId), LAMBDA k : k \in DOMAIN files),
         LAMBDA k : files[k])

(* scenariosMap.set(scenarioId, metrics): a Map in first-insertion order
   holding the last value set for each key *)
ScenariosMap(results) ==
  MapSeq(LastByScenario(results),
         LAMBDA r : [scenarioId |-> r.metadata.scenarioId,
                     metrics |-> r.metrics])

NewDataPoint(runId, results) ==
  [runId |-> runId, timestamp |-> results[1].metadata.timestamp,
   scenarios |-> ScenariosMap(results)]

(* dp.scenarios.get(scenarioId) or dp.scenarios[scenarioId]: <<>> stands
   for undefined *)
ScenarioMetrics(dp, scenarioId) ==
  MapSeq(SelectSeq(dp.scenarios, LAMBDA e : e.scenarioId = scenarioId),
         LAMBDA e : e.metrics)

(* ((last - first) / first) * 100 as an exact fraction *)
PercentChange(first, last) == [num |-> (last - first) * 100, den |-> first]

FracAbs(x) == [num |-> Abs(x.num), den |-> Abs(x.den)]

FracGreater(x, n) == x.num > n * x.den

FracLess(x, n) == x.num < n * x.den

TrendLabel(latencyChange) ==
  IF FracLess(latencyChange, -5) THEN "improving"
  ELSE IF FracGreater(latencyChange, 5) THEN "degrading"
  ELSE "stable"

ScenarioTrend(scenarioId, scenarioData) ==
  LET firstMetrics == scenarioData[1].metrics
      lastMetrics == scenarioData[Len(scenarioData)].metrics
      latencyChange == PercentChange(firstMetrics.median, lastMetrics.median)
  IN  [scenarioId |-> scenarioId,
       trend |-> TrendLabel(latencyChange),
       avgLatencyP50 |->
         Mean(MapSeq(scenarioData, LAMBDA x : x.metrics.median)),
       avgLatencyP95 |-> Mean(MapSeq(scenarioData, LAMBDA x : x.metrics.p95)),
       avgThroughput |-> Mean(MapSeq(scenarioData, LAMBDA x : x.metrics.rps)),
       latencyChange |-> latencyChange,
       throughputChange |-> PercentChange(firstMetrics.rps, lastMetrics.rps),
       dataPoints |-> Len(scenarioData)]

(* the trends Map, in insertion order *)
calculateTrends(dataPoints) ==
  IF Len(dataPoints) < 2 THEN <<>>
  ELSE
    LET allScenarios ==
          Unique(Flatten(MapSeq(dataPoints,
            LAMBDA dp : MapSeq(dp.scenarios, LAMBDA e : e.scenarioId))))
        scenarioData(scenarioId) ==
          Flatten(MapSeq(dataPoints,
            LAMBDA dp : MapSeq(ScenarioMetrics(dp, scenarioId),
                               LAMBDA x : [timestamp |-> dp.timestamp,
                                           metrics |-> x])))
        tracked == SelectSeq(allScenarios,
                             LAMBDA sid : ~(Len(scenarioData(sid)) < 2))
    IN  MapSeq(tracked, LAMBDA sid : ScenarioTrend(sid, scenarioData(sid)))

determineSeverity(changePercentage) ==
  IF FracGreater(changePercentage, 50) THEN "critical"
  ELSE IF FracGreater(changePercentage, 25) THEN "warning"
  ELSE "minor"

RegressionAlert(scenarioId, metric, change, previous, current) ==
  [scenarioId |-> scenarioId, metric |-> metric,
   severity |-> determineSeverity(change), changePercentage |-> change,
   fromRun |-> previous.runId, toRun |-> current.runId,
   timestamp |-> current.timestamp]

detectRegressionsInTimeline(dataPoints) ==
  IF Len(dataPoints) < 2 THEN <<>>
  ELSE
    LET previousDataPoint == dataPoints[Len(dataPoints) - 1]
        currentDataPoint == dataPoints[Len(dataPoints)]
        alerts(e) ==
          LET found == ScenarioMetrics(previousDataPoint, e.scenarioId)
          IN  IF found = <<>> THEN <<>>
              ELSE
                LET previous == found[1]
                    current == e.metrics
                    latencyChange ==
                      PercentChange(previous.median, current.median)
                    throughputChange ==
                      PercentChange(previous.rps, current.rps)
                IN  (IF FracGreater(latencyChange, 10)
                     THEN <<RegressionAlert(e.scenarioId, "latency",
                                            latencyChange, previousDataPoint,
                                            currentDataPoint)>>
                     ELSE <<>>)
                    \o
                    (IF FracLess(throughputChange, -10)
                     THEN <<RegressionAlert(e.scenarioId, "throughput",
                                            FracAbs(throughputChange),
                                            previousDataPoint,
                                            currentDataPoint)>>
                     ELSE <<>>)
    IN  Flatten(MapSeq(currentDataPoint.scenarios, alerts))

(* JSON.stringify(timeline): the scenarios Map of the new data point and the
   trends Map have no enumerable properties and are written as {}; the data
   points read back from the file already hold {} *)
StringifyTimeline(timeline) ==
  [timeline EXCEPT
     !.dataPoints = MapSeq(@, LAMBDA dp : [dp EXCEPT !.scenarios = <<>>]),
     !.trends = <<>>]

(* loadTimeline: JSON.parse of the file, or null *)
loadTimeline(tls, ormId) ==
  IF ormId \in DOMAIN tls THEN tls[ormId] ELSE NoDoc

BuildTimeline_onlyNew(existingTimeline, ormId, runId, results, d) ==
  LET dataPoints == <<NewDataPoint(runId, results)>>
  IN  [ormId |-> ormId,
       generated |-> toISOString(d),
       dataPoints |-> dataPoints,
       trends |-> calculateTrends(dataPoints),
       regressions |-> detectRegressionsInTimeline(dataPoints)]

BuildTimeline(existingTimeline, ormId, runId, results, d) ==
  LET newDataPoint == NewDataPoint(runId, results)
      dataPoints == IF existingTimeline # NoDoc
                    THEN Append(existingTimeline.dataPoints, newDataPoint)
                    ELSE <<newDataPoint>>
  IN  [ormId |-> ormId,
       generated |-> toISOString(d),
       dataPoints |-> dataPoints,
       trends |-> calculateTrends(dataPoints),
       regressions |-> detectRegressionsInTimeline(dataPoints)]

(* the timeline files after updateORMTimeline(runId, ormId) *)
TimelinesAfter(tls, files, runId, ormId, d) ==
  LET results == HT_loadORMResultsFromRun(files, runId, ormId)
  IN  IF Len(results) = 0 THEN tls
      ELSE Put(tls, ormId,
               StringifyTimeline(BuildTimeline(loadTimeline(tls, ormId),
                                               ormId, runId, results, d)))

updateORMTimeline(runId, ormId) ==
  /\ lastOp' = Op("updateORMTimeline", TRUE, runId, <<ormId>>,
                  ormId \in DOMAIN timelines)
  /\ timelines' = TimelinesAfter(timelines, resultFiles, runId, ormId, now)
  /\ UNCHANGED <<now, ledgerVars, aggVars, cmpVars, versionComparisons,
                 uiVars>>

----------------------------------------------------------------------------
(* UI data: UIDataGenerator.generateComparisonViews.  The index and the
   dashboard written by generateAll before the comparison views are outside
   the state. *)

AllOrmsView == "latest-all-orms.json"

CategoryViewFile(category) == category \o "-only.json"

(* {...ormComparison, scenarios: categoryScenarios, category} *)
UICategoryView(ormComparison, category) ==
  [f \in DOMAIN ormComparison \cup {"category"} |->
     IF f = "category" THEN category
     ELSE IF f = "scenarios"
          THEN SelectSeq(ormComparison.scenarios,
                         LAMBDA sc : sc.category = category)
          ELSE ormComparison[f]]

RECURSIVE CategoryViewsAfter(_, _, _)
CategoryViewsAfter(ui, ormComparison, categories) ==
  IF categories = <<>> THEN ui
  ELSE CategoryViewsAfter(Put(ui, CategoryViewFile(Head(categories)),
                              UICategoryView(ormComparison,
                                             Head(categories))),
                          ormComparison, Tail(categories))

(* the ui-data/comparisons files after generateComparisonViews: the source
   is orm-comparisons/latest.json whatever run is asked for; a missing file
   is a caught read error *)
ComparisonViewsAfter(ui, latest) ==
  IF latest = NoDoc THEN ui
  ELSE CategoryViewsAfter(Put(ui, AllOrmsView, latest), latest,
                          Unique(MapSeq(latest.scenarios,
                                        LAMBDA sc : sc.category)))

generateComparisonViews(runId) ==
  /\ lastOp' = Op("generateComparisonViews", TRUE, runId, <<>>,
                  AllOrmsView \in DOMAIN uiComparisons)
  /\ uiComparisons' = ComparisonViewsAfter(uiComparisons, latestComparison)
  /\ UNCHANGED <<now, ledgerVars, aggVars, cmpVars, trackerVars>>

GenerateComparisonViews ==
  /\ \E runId \in StoreRunIds : generateComparisonViews(runId)
  /\ UNCHANGED calls

NextUI == Tock \/ GenerateORMComparison \/ GenerateComparisonViews

SpecUI == InitCmp /\ [][NextUI]_vars

----------------------------------------------------------------------------
(* Storage manager: StorageManager.generateAllAggregations and
   regenerateAllAggregations.  Of the ui-data files written by the last step
   of a sweep only the comparison views are in the state. *)

DerivedState ==
  [byOrm |-> byOrm, byScenario |-> byScenario, byCategory |-> byCategory,
   ormComparisons |-> ormComparisons, latestComparison |-> latestComparison,
   timelines |-> timelines, uiComparisons |-> uiComparisons]

(* I/O faults: the files or directories whose read or write throws during
   one call of the manager *)
ByOrmFile(ormId) == "by-orm/" \o ormId \o ".json"

ByScenarioFile(scenarioId) == "by-scenario/" \o scenarioId \o ".json"

ByCategoryFile(category) == "by-category/" \o category \o ".json"

ComparisonsDir == "comparisons/orm-comparisons"

TimelineFile(ormId) == "historical/" \o ormId \o "-timeline.json"

UIDataDir == "ui-data"

MetadataFile(runId) == "runs/" \o ToString(runId) \o "/metadata.json"

(* aggregateByORM(ormId, runId) for each library, errors logged *)
RECURSIVE ByORMAfterAll_abortOnFailure(_, _, _, _, _, _)
ByORMAfterAll_abortOnFailure(docs, files, ormIds, runId, d, faults) ==
  IF ormIds = <<>> THEN docs
  ELSE LET results == loadORMResultsFromRun(files, runId, Head(ormIds))
           next == IF Len(results) = 0 THEN docs
                   ELSE Put(docs, Head(ormIds),
                            BuildByORM(Head(ormIds), results, d))
       IN  IF ByOrmFile(Head(ormIds)) \in faults THEN docs
           ELSE ByORMAfterAll_abortOnFailure(next, files, Tail(ormIds),
                                             runId, d, faults)

RECURSIVE ByORMAfterAll(_, _, _, _, _, _)
ByORMAfterAll(docs, files, ormIds, runId, d, faults) ==
  IF ormIds = <<>> THEN docs
  ELSE LET results == loadORMResultsFromRun(files, runId, Head(ormIds))
           next == IF Len(results) = 0
                      \/ ByOrmFile(Head(ormIds)) \in faults
                   THEN docs
                   ELSE Put(docs, Head(ormIds),
                            BuildByORM(Head(ormIds), results, d))
       IN  ByORMAfterAll(next, files, Tail(ormIds), runId, d, faults)

RECURSIVE ByScenarioAfterAll(_, _, _, _, _, _)
ByScenarioAfterAll(docs, files, scenarioIds, runId, d, faults) ==
  IF scenarioIds = <<>> THEN docs
  ELSE LET results ==
             loadScenarioResultsFromRun(files, runId, Head(scenarioIds))
           next == IF Len(results) = 0
                      \/ ByScenarioFile(Head(scenarioIds)) \in faults
                   THEN docs
                   ELSE Put(docs, Head(scenarioIds),
                            BuildByScenario(Head(scenarioIds), results, d))
       IN  ByScenarioAfterAll(next, files, Tail(scenarioIds), runId, d,
                              faults)

RECURSIVE ByCategoryAfterAll(_, _, _, _, _, _)
ByCategoryAfterAll(docs, files, categories, runId, d, faults) ==
  IF categories = <<>> THEN docs
  ELSE LET categoryResults ==
             SelectSeq(loadAllResultsFromRun(files, runId),
                       LAMBDA r : r.metadata.scenarioCategory
                                    = Head(categories))
           next == IF Len(categoryResults) = 0
                      \/ ByCategoryFile(Head(categories)) \in faults
                   THEN docs
                   ELSE Put(docs, Head(categories),
                            StringifyByCategory(
                              BuildByCategory(Head(categories),
                                              categoryResults, d)))
       IN  ByCategoryAfterAll(next, files, Tail(categories), runId, d,
                              faults)

(* updateTimelines: updateORMTimeline for each library, errors logged *)
RECURSIVE TimelinesAfterAll(_, _, _, _, _, _)
TimelinesAfterAll(tls, files, runId, ormIds, d, faults) ==
  IF ormIds = <<>> THEN tls
  ELSE LET next == IF TimelineFile(Head(ormIds)) \in faults THEN tls
                   ELSE TimelinesAfter(tls, files, runId, Head(ormIds), d)
       IN  TimelinesAfterAll(next, files, runId, Tail(ormIds), d, faults)

(* loadRunMetadata returns null when metadata.json is missing or unreadable
   and generateAllAggregations throws *)
RunNotFound(meta, runId, faults) ==
  runId \notin DOMAIN meta \/ MetadataFile(runId) \in faults

(* the derived files after generateAllAggregations(runId); an unknown run
   throws before anything is written; every later failure is caught and
   logged by the step it belongs to *)
generateAllAggregationsFrom(st, meta, files, runId, d, faults) ==
  IF RunNotFound(meta, runId, faults) THEN st
  ELSE
    LET metadata == loadRunMetadata(meta, runId)
        ormIds == MapSeq(metadata.testedORMs, LAMBDA o : o.ormId)
        allResults == loadAllResultsFromRun(files, runId)
        scenarioIds ==
          Unique(MapSeq(allResults, LAMBDA r : r.metadata.scenarioId))
        categories ==
          Unique(MapSeq(allResults, LAMBDA r : r.metadata.scenarioCategory))
        cgResults == CG_loadAllResultsFromRun(files, runId)
        cgOrms == Unique(MapSeq(cgResults, LAMBDA r : r.metadata.ormId))
        compared == /\ ~(Len(cgResults) = 0 \/ TooFewORMs(cgOrms))
                    /\ ComparisonsDir \notin faults
        doc == BuildORMComparison(cgResults, runId, d)
        latest == IF compared THEN doc ELSE st.latestComparison
    IN  [byOrm |-> ByORMAfterAll(st.byOrm, files, ormIds, runId, d, faults),
         byScenario |->
           ByScenarioAfterAll(st.byScenario, files, scenarioIds, runId, d,
                              faults),
         byCategory |->
           ByCategoryAfterAll(st.byCategory, files, categories, runId, d,
                              faults),
         ormComparisons |-> IF compared
                            THEN Put(st.ormComparisons, runId, doc)
                            ELSE st.ormComparisons,
         latestComparison |-> latest,
         timelines |->
           TimelinesAfterAll(st.timelines, files, runId, ormIds, d, faults),
         uiComparisons |->
           IF UIDataDir \in faults THEN st.uiComparisons
           ELSE ComparisonViewsAfter(st.uiComparisons, latest)]

SetDerivedState(st) ==
  /\ byOrm' = st.byOrm
  /\ byScenario' = st.byScenario
  /\ byCategory' = st.byCategory
  /\ ormComparisons' = st.ormComparisons
  /\ latestComparison' = st.latestComparison
  /\ timelines' = st.timelines
  /\ uiComparisons' = st.uiComparisons

generateAllAggregations(runId, faults) ==
  /\ lastOp' = Op("generateAllAggregations",
                  ~RunNotFound(metadataFiles, runId, faults), runId,
                  <<faults>>, FALSE)
  /\ SetDerivedState(generateAllAggregationsFrom(DerivedState, metadataFiles,
                                                 resultFiles, runId, now,
                                                 faults))
  /\ UNCHANGED <<now, ledgerVars, versionComparisons>>

(* for (i = 0; i < runs.length; i++) generateAllAggregations(runs[i]),
   errors logged *)
RECURSIVE RegenerateFrom(_, _, _, _, _, _)
RegenerateFrom(st, meta, files, runs, d, faults) ==
  IF runs = <<>> THEN st
  ELSE RegenerateFrom(generateAllAggregationsFrom(st, meta, files,
                                                  Head(runs), d, faults),
                      meta, files, Tail(runs), d, faults)

regenerateAllAggregations(faults) ==
  /\ lastOp' = Op("regenerateAllAggregations", TRUE, NoRun, <<faults>>,
                  FALSE)
  /\ SetDerivedState(RegenerateFrom(DerivedState, metadataFiles, resultFiles,
                                    listRuns(metadataFiles, resultFiles),
                                    now, faults))
  /\ UNCHANGED <<now, ledgerVars, versionComparisons>>

MgrPaths == {<<"a", "crud", "s1">>, <<"a", "read", "s1">>,
             <<"b", "crud", "s1">>}

MgrMetrics == {MkMetrics(m, MaxLat - m, 0) : m \in 1..(MaxLat - 1)}

MgrORMs == {p[1] : p \in MgrPaths}

(* no fault, or one failing file or directory *)
FaultSets ==
  {{}} \cup {{f} : f \in {ByOrmFile("a"), ByScenarioFile("s1"),
                           ByCategoryFile("crud"), ComparisonsDir,
                           TimelineFile("a"), UIDataDir, MetadataFile(1)}}

GenerateAllAggregations ==
  /\ CountCall
  /\ \E runId \in StoreRunIds : generateAllAggregations(runId, {})

RegenerateAllAggregations == CountCall /\ regenerateAllAggregations({})

UpdateORMTimeline ==
  /\ CountCall
  /\ \E runId \in StoreRunIds, ormId \in MgrORMs :
       updateORMTimeline(runId, ormId)

InitMgr == \E files \in Stores(MgrPaths, MgrMetrics, MaxFiles) : StoreInit(files)

NextMgr ==
  Tock \/ GenerateAllAggregations \/ RegenerateAllAggregations
    \/ UpdateORMTimeline

SpecMgr == InitMgr /\ [][NextMgr]_vars

(* The sweeps under I/O faults *)
SweepMetrics == {MkMetrics(1, 1, 0)}

GenerateAllAggregationsWithFaults ==
  /\ CountCall
  /\ \E runId \in StoreRunIds, faults \in FaultSets :
       generateAllAggregations(runId, faults)

RegenerateAllAggregationsWithFaults ==
  /\ CountCall
  /\ \E faults \in FaultSets : regenerateAllAggregations(faults)

InitSweep ==
  \E files \in Stores(MgrPaths, SweepMetrics, MaxFiles) : StoreInit(files)

NextSweep ==
  Tock \/ GenerateAllAggregationsWithFaults
    \/ RegenerateAllAggregationsWithFaults

SpecSweep == InitSweep /\ [][NextSweep]_vars

----------------------------------------------------------------------------
(* Comparator: ComparisonGenerator.compareVersions *)

(* `${ormName}-v${version}` *)
VersionOrmId(ormName, version) == ormName \o "-v" \o version

(* versions.join(separator) *)
RECURSIVE Join(_, _)
Join(strings, separator) ==
  IF strings = <<>> THEN ""
  ELSE IF Len(strings) = 1 THEN strings[1]
  ELSE strings[1] \o separator \o Join(Tail(strings), separator)

(* runs.sort().reverse(), then the first run with a directory of ormId:
   every result of that run is returned *)
loadLatestResultsForORM(files, ormId) ==
  LET sortedRuns == Reverse(SeqOfSet({k[1] : k \in DOMAIN files}))
      holding == SelectSeq(sortedRuns,
                           LAMBDA r : \E k \in DOMAIN files :
                                        k[1] = r /\ k[2] = ormId)
  IN  IF holding = <<>> THEN <<>>
      ELSE CG_loadAllResultsFromRun(files, holding[1])

VersionTrend(latencyChange) ==
  IF FracLess(latencyChange, -5) THEN "improving"
  ELSE IF FracGreater(latencyChange, 5) THEN "degrading"
  ELSE "stable"

(* versionMetrics is a Map keyed by version; a lookup gives <<>> for
   undefined *)
compareVersionScenario(scenarioId, versionMetrics, versions) ==
  LET firstVersion == versions[1]
      lastVersion == versions[Len(versions)]
      firstMetrics == versionMetrics[firstVersion]
      lastMetrics == versionMetrics[lastVersion]
      known == firstMetrics # <<>> /\ lastMetrics # <<>>
      latencyChange == PercentChange(firstMetrics[1].median,
                                     lastMetrics[1].median)
  IN  [scenarioId |-> scenarioId,
       category |-> "crud",
       versionResults |-> versionMetrics,
       trend |-> IF known THEN VersionTrend(latencyChange) ELSE "stable",
       changePercentage |-> IF known THEN FracAbs(latencyChange)
                            ELSE [num |-> 0, den |-> 1]]

findSignificantChanges(scenarios, versions) ==
  MapSeq(SelectSeq(scenarios,
                   LAMBDA sc : FracGreater(sc.changePercentage, 10)),
         LAMBDA sc : [scenarioId |-> sc.scenarioId,
                      type |-> IF sc.trend = "improving" THEN "improvement"
                               ELSE "regression",
                      metric |-> "latency",
                      changePercentage |-> sc.changePercentage,
                      fromVersion |-> versions[1],
                      toVersion |-> versions[Len(versions)]])

BuildVersionComparison(files, ormName, versions, d) ==
  LET versionResults ==
        [v \in Range(versions) |->
           loadLatestResultsForORM(files, VersionOrmId(ormName, v))]
      allScenarioIds ==
        Unique(Flatten(MapSeq(Unique(versions),
          LAMBDA v : MapSeq(versionResults[v],
                            LAMBDA r : r.metadata.scenarioId))))
      has(v, scenarioId) ==
        \E i \in DOMAIN versionResults[v] :
          versionResults[v][i].metadata.scenarioId = scenarioId
      commonScenarios ==
        SelectSeq(allScenarioIds,
                  LAMBDA sid : \A v \in Range(versions) : has(v, sid))
      find(v, scenarioId) ==
        LET found == SelectSeq(versionResults[v],
                               LAMBDA r : r.metadata.scenarioId = scenarioId)
        IN  IF found = <<>> THEN <<>> ELSE <<found[1].metrics>>
      scenarioComparisons ==
        MapSeq(commonScenarios,
               LAMBDA sid : compareVersionScenario(
                              sid, [v \in Range(versions) |-> find(v, sid)],
                              versions))
      significantChanges ==
        findSignificantChanges(scenarioComparisons, versions)
      count(type) ==
        Cardinality({i \in DOMAIN significantChanges :
                       significantChanges[i].type = type})
  IN  [comparisonId |-> ormName \o "-version-comparison",
       ormName |-> ormName,
       versions |-> versions,
       generated |-> toISOString(d),
       scenarios |-> scenarioComparisons,
       summary |->
         [improvementCount |-> count("improvement"),
          regressionCount |-> count("regression"),
          noChangeCount |->
            Len(scenarioComparisons) - Len(significantChanges),
          significantChanges |-> significantChanges]]

(* JSON.stringify(comparison): each scenario's versionResults Map is written
   as {} *)
StringifyVersionComparison(comparison) ==
  [comparison EXCEPT
     !.scenarios = MapSeq(@, LAMBDA sc : [sc EXCEPT !.versionResults = <<>>])]

compareVersions(ormName, versions) ==
  LET filename == ormName \o "-" \o Join(versions, "-vs-") \o ".json"
  IN  /\ IF Len(versions) < 2
         THEN /\ lastOp' = Op("compareVersions", FALSE, NoRun,
                              <<ormName, versions>>, FALSE)
              /\ versionComparisons' = versionComparisons
         ELSE /\ lastOp' = Op("compareVersions", TRUE, NoRun,
                              <<ormName, versions>>,
                              filename \in DOMAIN versionComparisons)
              /\ versionComparisons' =
                   Put(versionComparisons, filename,
                       StringifyVersionComparison(
                         BuildVersionComparison(resultFiles, ormName,
                                                versions, now)))
      /\ UNCHANGED <<now, ledgerVars, aggVars, cmpVars, timelines, uiVars>>

VerName == "p"

VersionLists == {<<"1">>, <<"1", "2">>, <<"2", "1">>, <<"1", "2", "1">>}

VerPaths ==
  {<<VersionOrmId(VerName, v), "crud", s>> : v \in {"1", "2"},
                                             s \in {"s1", "s2"}}

VerMetrics == {MkMetrics(m, 1, 0) : m \in {20, 21, 23}}

CompareVersions ==
  /\ CountCall
  /\ \E versions \in VersionLists : compareVersions(VerName, versions)

InitVer == \E files \in Stores(VerPaths, VerMetrics, MaxFiles) : StoreInit(files)

NextVer == Tock \/ CompareVersions

SpecVer == InitVer /\ [][NextVer]_vars

----------------------------------------------------------------------------
(* Properties of the run ledger and the measurement store *)

AllRunIds == 0..generateRunId(MaxClock)

(* the measurements a reader of run runId finds for one identity *)
MeasurementsFor(files, runId, ormId, category, scenarioId) ==
  SelectSeq(loadAllResultsFromRun(files, runId),
            LAMBDA r : /\ r.metadata.ormId = ormId
                       /\ r.metadata.scenarioCategory = category
                       /\ r.metadata.scenarioId = scenarioId)

(* the measurements of run r stored under any identity but (runId, key) *)
OtherMeasurements(files, r, runId, key) ==
  SelectSeq(loadAllResultsFromRun(files, r),
            LAMBDA x : ~(/\ r = runId
                         /\ x.metadata.ormId = key[1]
                         /\ x.metadata.scenarioCategory = key[2]
                         /\ x.metadata.scenarioId = key[3]))

(* C1: a successful saveResult leaves exactly one stored measurement under
   its (runId, ormId, category, scenarioId) key, holding the metrics and the
   time of this write, also when the key was already stored; the measurements
   under every other key are the same as before. *)
C1_OverwriteNotDuplicate ==
  [][\A k \in LedgerKeys, m \in LedgerMetrics :
       (currentRunId # NoRun /\ saveResult(k[1], k[3], k[2], m)) =>
         LET written == MkResult(currentRunId, k[1], k[2], k[3], m, now)
         IN  /\ MeasurementsFor(resultFiles', currentRunId, k[1], k[2], k[3])
                  = <<written>>
             /\ loadResult(resultFiles', currentRunId, k[1], k[2], k[3])
                  = <<written>>
             /\ \A r \in AllRunIds :
                  OtherMeasurements(resultFiles', r, currentRunId, k)
                    = OtherMeasurements(resultFiles, r, currentRunId, k)]_vars

C1_Witness ==
  /\ lastOp.name = "saveResult"
  /\ lastOp.ok
  /\ lastOp.overwrote
  /\ Cardinality(DOMAIN resultFiles) >= 2

(* C2: startRun called while a run is open raises an error and leaves the
   open run, its in-memory metadata and the stored metadata unchanged. *)
C2_StartRunRejectsOpenRun ==
  [][(currentRunId # NoRun /\ StartRun) =>
       /\ ~lastOp'.ok
       /\ currentRunId' = currentRunId
       /\ currentRunMetadata' = currentRunMetadata
       /\ metadataFiles' = metadataFiles]_vars

(* C3: saveResult and endRun called while no run is open raise an error and
   create or change no measurement, no run metadata and no runs index. *)
C3_NoRunNoWrite ==
  [][(/\ currentRunId = NoRun
      /\ \/ \E status \in EndStatus : endRun(status)
         \/ \E k \in LedgerKeys, m \in LedgerMetrics :
              saveResult(k[1], k[3], k[2], m)) =>
       /\ ~lastOp'.ok
       /\ resultFiles' = resultFiles
       /\ metadataFiles' = metadataFiles
       /\ runsIndex' = runsIndex
       /\ currentRunId' = NoRun]_vars

C3_Witness ==
  /\ lastOp.name \in {"saveResult", "endRun"}
  /\ ~lastOp.ok
  /\ metadataFiles # EmptyMap
  /\ runsIndex # NoDoc

(* C4: once the stored status of a run is terminal, its status, end time and
   duration never change again. *)
C4_TerminalIsFinal ==
  [][\A r \in DOMAIN metadataFiles :
       metadataFiles[r].status \in TerminalStatus =>
         /\ metadataFiles'[r].status = metadataFiles[r].status
         /\ metadataFiles'[r].endTime = metadataFiles[r].endTime
         /\ metadataFiles'[r].duration = metadataFiles[r].duration]_vars

(* C5: every startRun returns a run id, and so a run directory, that no
   earlier run has used. *)
C5_RunIdsUnique ==
  [][(currentRunId = NoRun /\ StartRun) => lastOp'.run \notin RunDirs(metadataFiles, resultFiles)]_vars

(* C6: startRun followed immediately by endRun('completed') stores a run with
   status completed, a summary of zero scenarios, successes and failures, no
   library rows, and duration = endTime - startTime in milliseconds. *)
C6_EmptyRunLifecycle ==
  [][(lastOp.name = "startRun" /\ endRun("completed")) =>
       LET md == metadataFiles'[lastOp.run]
       IN  /\ lastOp'.ok
           /\ md.status = "completed"
           /\ md.summary.totalScenarios = 0
           /\ md.summary.successfulTests = 0
           /\ md.summary.failedTests = 0
           /\ md.testedORMs = <<>>
           /\ md.endTime = toISOString(now)
           /\ md.startTime = currentRunMetadata.startTime
           /\ md.duration = now - getTime(md.startTime)]_vars

C6_Witness ==
  /\ lastOp.name = "endRun"
  /\ lastOp.ok
  /\ metadataFiles[lastOp.run].status = "completed"
  /\ metadataFiles[lastOp.run].summary.totalScenarios = 0
  /\ metadataFiles[lastOp.run].duration > 0

----------------------------------------------------------------------------
(* Properties of the ORM comparison *)

MinOf(S) == CHOOSE x \in S : \A y \in S : x <= y

(* the stored results of run runId for one scenario id *)
ScenarioResults(files, runId, scenarioId) ==
  SelectSeq(CG_loadAllResultsFromRun(files, runId),
            LAMBDA r : r.metadata.scenarioId = scenarioId)

LibrariesOf(results) == {results[i].metadata.ormId : i \in DOMAIN results}

BestP50(results, ormId) ==
  MinOf({results[i].metrics.median :
           i \in {j \in DOMAIN results : results[j].metadata.ormId = ormId}})

(* C7: in every stored ORM comparison, each scenario's winner is a library
   whose p50 is the minimum among that scenario's results, and the p50
   percentage is (secondBest.p50 - winner.p50) / winner.p50 * 100, where
   secondBest is the best of the other libraries. *)
C7_WinnerAndDelta ==
  \A r \in DOMAIN ormComparisons :
    \A i \in DOMAIN ormComparisons[r].scenarios :
      LET sc == ormComparisons[r].scenarios[i]
          rs == ScenarioResults(resultFiles, r, sc.scenarioId)
          w == sc.winner.ormId
          others == LibrariesOf(rs) \ {w}
          pct == sc.comparison.latencyDiff.p50.percentage
      IN  /\ w \in LibrariesOf(rs)
          /\ \A l \in LibrariesOf(rs) : BestP50(rs, w) <= BestP50(rs, l)
          /\ others # {}
          /\ LET second == MinOf({BestP50(rs, l) : l \in others})
             IN  pct.num * BestP50(rs, w)
                   = (second - BestP50(rs, w)) * 100 * pct.den

(* The same statement with secondBest read as the second-lowest p50 among
   the scenario's results, whichever library it belongs to. *)
WinnerAndDeltaOverResults ==
  \A r \in DOMAIN ormComparisons :
    \A i \in DOMAIN ormComparisons[r].scenarios :
      LET sc == ormComparisons[r].scenarios[i]
          rs == ScenarioResults(resultFiles, r, sc.scenarioId)
          w == sc.winner.ormId
          pct == sc.comparison.latencyDiff.p50.percentage
          lo == MinOf({rs[j].metrics.median : j \in DOMAIN rs})
          at == CHOOSE j \in DOMAIN rs : rs[j].metrics.median = lo
          second == MinOf({rs[j].metrics.median : j \in DOMAIN rs \ {at}})
      IN  /\ w \in LibrariesOf(rs)
          /\ BestP50(rs, w) = lo
          /\ pct.num * lo = (second - lo) * 100 * pct.den

(* C8: every scenario listed in a stored ORM comparison has results from at
   least two distinct libraries. *)
C8_ComparisonNeedsCompetition ==
  \A r \in DOMAIN ormComparisons :
    \A i \in DOMAIN ormComparisons[r].scenarios :
      Cardinality({ormComparisons[r].scenarios[i].results[j].ormId :
                     j \in DOMAIN ormComparisons[r].scenarios[i].results})
        >= 2

(* C9: generateORMComparison on a run with results from fewer than two
   libraries returns normally and leaves the per-run comparison documents
   and the latest comparison document as they were. *)
C9_FewerThanTwoIsNoOp ==
  [][\A r \in StoreRunIds :
       (/\ generateORMComparison(r)
        /\ Cardinality(LibrariesOf(CG_loadAllResultsFromRun(resultFiles, r)))
             < 2) =>
         /\ lastOp'.ok
         /\ ormComparisons' = ormComparisons
         /\ latestComparison' = latestComparison]_vars

C9_Witness ==
  /\ lastOp.name = "generateORMComparison"
  /\ lastOp.ok
  /\ Cardinality(LibrariesOf(CG_loadAllResultsFromRun(resultFiles,
                                                       lastOp.run))) = 1
  /\ latestComparison # NoDoc
  /\ lastOp.run \notin DOMAIN ormComparisons

(***************************************************************************)
(* Claims about the aggregator                                             *)
(***************************************************************************)

(* the artifact without its generated-at timestamp *)
WithoutGenerated(doc) == [doc EXCEPT !.generated = NoTime]

WithoutLastUpdated(doc) == [doc EXCEPT !.lastUpdated = NoTime]

SameCallAsLast(name, runId, key) ==
  /\ lastOp.name = name
  /\ lastOp.run = runId
  /\ lastOp.key = <<key>>

(* C10: calling aggregateByORM, aggregateByScenario or aggregateByCategory
   a second time in a row with the same arguments on an unchanged store
   leaves the same set of artifacts, and the artifact of the call is the
   same as after the first call except for its generated-at timestamp. *)
C10_AggregateTwiceSameArtifact ==
  [][/\ \A ormId \in AggORMs, runId \in RunArgs :
          (/\ SameCallAsLast("aggregateByORM", runId, ormId)
           /\ aggregateByORM(ormId, runId)) =>
            /\ DOMAIN byOrm' = DOMAIN byOrm
            /\ \A k \in DOMAIN byOrm :
                 WithoutGenerated(byOrm'[k]) = WithoutGenerated(byOrm[k])
     /\ \A scenarioId \in Scenarios, runId \in RunArgs :
          (/\ SameCallAsLast("aggregateByScenario", runId, scenarioId)
           /\ aggregateByScenario(scenarioId, runId)) =>
            /\ DOMAIN byScenario' = DOMAIN byScenario
            /\ \A k \in DOMAIN byScenario :
                 WithoutLastUpdated(byScenario'[k])
                   = WithoutLastUpdated(byScenario[k])
     /\ \A category \in Categories, runId \in RunArgs :
          (/\ SameCallAsLast("aggregateByCategory", runId, category)
           /\ aggregateByCategory(category, runId)) =>
            /\ DOMAIN byCategory' = DOMAIN byCategory
            /\ \A k \in DOMAIN byCategory :
                 WithoutLastUpdated(byCategory'[k])
                   = WithoutLastUpdated(byCategory[k])]_vars

(* the second of two calls has rewritten an artifact at a later clock
   reading than the store was finished at *)
C10_Witness ==
  /\ calls = 2
  /\ lastOp.overwrote
  /\ now > StoreClock
  /\ \/ /\ lastOp.name = "aggregateByORM"
        /\ byOrm[lastOp.key[1]].generated = toISOString(now)
        /\ Len(byOrm[lastOp.key[1]].scenarios) >= 2
     \/ /\ lastOp.name = "aggregateByScenario"
        /\ byScenario[lastOp.key[1]].lastUpdated = toISOString(now)
        /\ Len(byScenario[lastOp.key[1]].ormResults) >= 2
     \/ /\ lastOp.name = "aggregateByCategory"
        /\ byCategory[lastOp.key[1]].lastUpdated = toISOString(now)
        /\ Len(byCategory[lastOp.key[1]].scenarios) >= 2

CategoryResults(files, runId, category) ==
  SelectSeq(loadAllResultsFromRun(files, runId),
            LAMBDA r : r.metadata.scenarioCategory = category)

ScenarioCountSum(ormResults) ==
  SumSeq(MapSeq(ormResults, LAMBDA o : o.scenarioCount))

(* C11: whenever aggregateByCategory writes the artifact of a category, the
   scenarioCount values of the libraries in the written artifact add up to
   the number of measurements of that category stored in the run. *)
C11_CategoryRollupSum ==
  [][\A category \in Categories, runId \in RunArgs :
       (/\ aggregateByCategory(category, runId)
        /\ TargetRunId(runId) # NoRun
        /\ Len(CategoryResults(resultFiles, TargetRunId(runId), category))
             > 0) =>
         ScenarioCountSum(byCategory'[category].ormResults)
           = Len(CategoryResults(resultFiles, TargetRunId(runId),
                                 category))]_vars

(* The same sum over the AggregatedCategoryResult object before it is
   stringified. *)
CategoryRollupSumInMemory ==
  \A runId \in StoreRunIds, category \in Categories :
    LET categoryResults == CategoryResults(resultFiles, runId, category)
    IN  Len(categoryResults) > 0 =>
          ScenarioCountSum(
            BuildByCategory(category, categoryResults, now).ormResults)
            = Len(categoryResults)

(* C13: a stored by-scenario artifact holds at most one entry per library. *)
C13_OneEntryPerLibrary ==
  \A scenarioId \in DOMAIN byScenario :
    \A i, j \in DOMAIN byScenario[scenarioId].ormResults :
      byScenario[scenarioId].ormResults[i].ormId
        = byScenario[scenarioId].ormResults[j].ormId => i = j

NothingFound(targetRunId, results) ==
  targetRunId = NoRun \/ Len(results) = 0

(* C14: an aggregate call that finds no run, or no measurement for its key
   in the target run, returns normally and leaves every aggregated artifact
   as it was. *)
C14_ZeroMeasurementsNoOp ==
  [][/\ \A ormId \in AggORMs, runId \in RunArgs :
          (/\ aggregateByORM(ormId, runId)
           /\ NothingFound(TargetRunId(runId),
                loadORMResultsFromRun(resultFiles, TargetRunId(runId),
                                      ormId))) =>
            lastOp'.ok /\ aggVars' = aggVars
     /\ \A scenarioId \in Scenarios, runId \in RunArgs :
          (/\ aggregateByScenario(scenarioId, runId)
           /\ NothingFound(TargetRunId(runId),
                loadScenarioResultsFromRun(resultFiles, TargetRunId(runId),
                                           scenarioId))) =>
            lastOp'.ok /\ aggVars' = aggVars
     /\ \A category \in Categories, runId \in RunArgs :
          (/\ aggregateByCategory(category, runId)
           /\ NothingFound(TargetRunId(runId),
                CategoryResults(resultFiles, TargetRunId(runId),
                                category))) =>
            lastOp'.ok /\ aggVars' = aggVars]_vars

(* the last call found nothing for a key whose artifact an earlier call
   had written *)
C14_Witness ==
  /\ lastOp.ok
  /\ lastOp.overwrote
  /\ lastOp.run # NoRun
  /\ \/ /\ lastOp.name = "aggregateByORM"
        /\ loadORMResultsFromRun(resultFiles, lastOp.run, lastOp.key[1])
             = <<>>
        /\ lastOp.key[1] \in DOMAIN byOrm
     \/ /\ lastOp.name = "aggregateByScenario"
        /\ loadScenarioResultsFromRun(resultFiles, lastOp.run,
                                      lastOp.key[1]) = <<>>
        /\ lastOp.key[1] \in DOMAIN byScenario
     \/ /\ lastOp.name = "aggregateByCategory"
        /\ CategoryResults(resultFiles, lastOp.run, lastOp.key[1]) = <<>>
        /\ lastOp.key[1] \in DOMAIN byCategory

(***************************************************************************)
(* Claims about the storage manager and the historical tracker             *)
(***************************************************************************)

RunsMeasuring(files, ormId) ==
  {r \in StoreRunIds : loadORMResultsFromRun(files, r, ormId) # <<>>}

MaxOf(S) == CHOOSE x \in S : \A y \in S : y <= x

(* C12: every stored by-library artifact describes the most recent run that
   holds measurements of the library: each of its scenario summaries is a
   measurement of that run, and every scenario the library measured in that
   run has a summary. *)
C12_ByLibraryIsLatest ==
  \A ormId \in DOMAIN byOrm :
    LET latest == MaxOf(RunsMeasuring(resultFiles, ormId))
        results == loadORMResultsFromRun(resultFiles, latest, ormId)
        doc == byOrm[ormId]
    IN  /\ \A i \in DOMAIN doc.scenarios :
             \E j \in DOMAIN results :
               /\ results[j].metadata.scenarioId = doc.scenarios[i].scenarioId
               /\ results[j].metadata.timestamp = doc.scenarios[i].lastRun
               /\ results[j].metrics = doc.scenarios[i].metrics
        /\ \A j \in DOMAIN results :
             \E i \in DOMAIN doc.scenarios :
               doc.scenarios[i].scenarioId = results[j].metadata.scenarioId

(* C17: no run id appears in two entries of a stored timeline. *)
C17_OneEntryPerRun ==
  \A ormId \in DOMAIN timelines :
    \A i, j \in DOMAIN timelines[ormId].dataPoints :
      timelines[ormId].dataPoints[i].runId
        = timelines[ormId].dataPoints[j].runId => i = j

(* the metrics a run stored for one library and scenario id *)
MeasuredMetrics(files, runId, ormId, scenarioId) ==
  {files[k].metrics :
     k \in {x \in DOMAIN files :
              x[1] = runId /\ x[2] = ormId /\ x[4] = scenarioId}}

TheOne(S) == CHOOSE x \in S : TRUE

SameFraction(x, y) == x.num * y.den = y.num * x.den

ExpectedSeverity(change) ==
  IF change.num > 50 * change.den THEN "critical"
  ELSE IF change.num > 25 * change.den THEN "warning"
  ELSE "minor"

ExpectedTrend(change) ==
  IF change.num < (0 - 5) * change.den THEN "improving"
  ELSE IF change.num > 5 * change.den THEN "degrading"
  ELSE "stable"

(* the alerts are those the runs prevRun and curRun call for *)
AlertsMatch(ormId, prevRun, curRun, alerts) ==
  LET of(s, metric) == {i \in DOMAIN alerts :
                         alerts[i].scenarioId = s /\ alerts[i].metric = metric}
  IN  /\ \A i \in DOMAIN alerts :
           alerts[i].fromRun = prevRun /\ alerts[i].toRun = curRun
      /\ \A s \in Scenarios :
           LET P == MeasuredMetrics(resultFiles, prevRun, ormId, s)
               C == MeasuredMetrics(resultFiles, curRun, ormId, s)
           IN  /\ (P = {} \/ C = {}) =>
                    of(s, "latency") \cup of(s, "throughput") = {}
               /\ (Cardinality(P) = 1 /\ Cardinality(C) = 1) =>
                    LET rise == PercentChange(TheOne(P).median,
                                              TheOne(C).median)
                        fall == [num |-> (TheOne(P).rps - TheOne(C).rps)
                                           * 100,
                                 den |-> TheOne(P).rps]
                    IN  /\ Cardinality(of(s, "latency"))
                             = IF rise.num > 10 * rise.den THEN 1 ELSE 0
                        /\ Cardinality(of(s, "throughput"))
                             = IF fall.num > 10 * fall.den THEN 1 ELSE 0
                        /\ \A i \in of(s, "latency") :
                             alerts[i].severity = ExpectedSeverity(rise)
                        /\ \A i \in of(s, "throughput") :
                             alerts[i].severity = ExpectedSeverity(fall)

(* C15: in every stored timeline with two or more entries, the alerts are
   those of the last two entries' runs: a scenario measured in both yields a
   latency alert exactly when its median rose by more than 10% and a
   throughput alert exactly when its rps fell by more than 10%, with
   severity minor above 10%, warning above 25%, critical above 50%; a
   scenario missing from either run yields none. *)
C15_RegressionAlerts ==
  \A ormId \in DOMAIN timelines :
    LET dps == timelines[ormId].dataPoints
        n == Len(dps)
    IN  n >= 2 => AlertsMatch(ormId, dps[n - 1].runId, dps[n].runId,
                              timelines[ormId].regressions)

(* The same statement for detectRegressionsInTimeline applied to data
   points that still hold their scenarios Map. *)
RegressionAlertsInMemory ==
  \A ormId \in ORMs, p \in StoreRunIds, c \in StoreRunIds :
    LET rp == HT_loadORMResultsFromRun(resultFiles, p, ormId)
        rc == HT_loadORMResultsFromRun(resultFiles, c, ormId)
    IN  (rp # <<>> /\ rc # <<>>) =>
          AlertsMatch(ormId, p, c,
                      detectRegressionsInTimeline(
                        <<NewDataPoint(p, rp), NewDataPoint(c, rc)>>))

(* the trend entries of scenario s are those the runs runIds call for *)
TrendsMatch(ormId, s, runIds, trends) ==
  LET with == {i \in DOMAIN runIds :
                 MeasuredMetrics(resultFiles, runIds[i], ormId, s) # {}}
      entries == {i \in DOMAIN trends : trends[i].scenarioId = s}
      lo == CHOOSE i \in with : \A j \in with : i <= j
      hi == CHOOSE i \in with : \A j \in with : j <= i
      F == MeasuredMetrics(resultFiles, runIds[lo], ormId, s)
      L == MeasuredMetrics(resultFiles, runIds[hi], ormId, s)
  IN  /\ Cardinality(with) < 2 => entries = {}
      /\ (/\ Cardinality(with) >= 2
          /\ Cardinality(F) = 1
          /\ Cardinality(L) = 1) =>
           /\ Cardinality(entries) = 1
           /\ \A i \in entries :
                LET change == PercentChange(TheOne(F).median,
                                            TheOne(L).median)
                IN  /\ SameFraction(trends[i].latencyChange, change)
                    /\ trends[i].trend = ExpectedTrend(change)

(* C16: in every stored timeline, a scenario measured in two or more of the
   timeline's runs has one trend entry whose latencyChange and label come
   from the first and the last of those runs; a scenario measured in fewer
   than two has none. *)
C16_TrendFromEndpoints ==
  \A ormId \in DOMAIN timelines :
    \A s \in Scenarios :
      TrendsMatch(ormId, s,
                  MapSeq(timelines[ormId].dataPoints, LAMBDA dp : dp.runId),
                  timelines[ormId].trends)

(* The same statement for calculateTrends applied to data points that still
   hold their scenarios Map. *)
TrendsInMemory ==
  \A ormId \in ORMs, s \in Scenarios :
    \A runIds \in {<<0, 1>>, <<1, 0>>, <<0, 1, 0>>, <<1, 0, 1>>} :
      (\A i \in DOMAIN runIds :
         HT_loadORMResultsFromRun(resultFiles, runIds[i], ormId) # <<>>) =>
        TrendsMatch(ormId, s, runIds,
                    calculateTrends(
                      MapSeq(runIds,
                             LAMBDA r : NewDataPoint(r,
                               HT_loadORMResultsFromRun(resultFiles, r,
                                                        ormId)))))

(***************************************************************************)
(* Claims about failed runs                                                *)
(***************************************************************************)

(* C20: endRun('failed') on an open run, as called by main's catch block,
   stores the run's metadata with status failed, and every measurement saved
   in the run is still returned by loadAllResultsFromRun,
   loadORMResultsFromRun and loadScenarioResultsFromRun. *)
C20_FailedRunKept ==
  [][(/\ currentRunId # NoRun
      /\ currentRunMetadata # NoMetadata
      /\ endRun("failed")) =>
       /\ lastOp'.ok
       /\ currentRunId \in DOMAIN metadataFiles'
       /\ metadataFiles'[currentRunId].status = "failed"
       /\ \A k \in DOMAIN resultFiles :
            k[1] = currentRunId =>
              /\ k \in DOMAIN resultFiles'
              /\ resultFiles'[k] = resultFiles[k]
              /\ resultFiles[k]
                   \in Range(loadAllResultsFromRun(resultFiles', k[1]))
              /\ resultFiles[k]
                   \in Range(loadORMResultsFromRun(resultFiles', k[1], k[2]))
              /\ resultFiles[k]
                   \in Range(loadScenarioResultsFromRun(resultFiles', k[1],
                                                        k[4]))]_vars

C20_Witness ==
  /\ lastOp.name = "endRun"
  /\ lastOp.ok
  /\ currentRunId = NoRun
  /\ metadataFiles[lastOp.run].status = "failed"
  /\ metadataFiles[lastOp.run].summary.totalScenarios > 0
  /\ \E k \in DOMAIN resultFiles : k[1] = lastOp.run

(***************************************************************************)
(* Claims about version comparisons                                        *)
(***************************************************************************)

(* the metrics library ormId stored for a scenario id in the most recent
   run that holds the library *)
LatestMetricsOf(files, ormId, scenarioId) ==
  LET runs == {k[1] : k \in {x \in DOMAIN files : x[2] = ormId}}
  IN  IF runs = {} THEN {}
      ELSE MeasuredMetrics(files, MaxOf(runs), ormId, scenarioId)

VersionHas(files, ormName, version, scenarioId) ==
  LatestMetricsOf(files, VersionOrmId(ormName, version), scenarioId) # {}

OneLibraryPerRun(files) ==
  \A k1, k2 \in DOMAIN files : k1[1] = k2[1] => k1[2] = k2[2]

ListedScenariosMatch(doc) ==
  {doc.scenarios[i].scenarioId : i \in DOMAIN doc.scenarios}
    = {s \in Scenarios :
         \A v \in Range(doc.versions) :
           VersionHas(resultFiles, doc.ormName, v, s)}

(* C18: the scenarios listed in a stored version comparison are exactly the
   scenarios that every requested version of the library has measured. *)
C18_CommonScenariosOnly ==
  \A f \in DOMAIN versionComparisons :
    ListedScenariosMatch(versionComparisons[f])

(* The same statement for stores in which no run holds two libraries. *)
CommonScenariosOnlyInSeparateRuns ==
  OneLibraryPerRun(resultFiles) => C18_CommonScenariosOnly

VersionTrendsMatch(doc) ==
  \A i \in DOMAIN doc.scenarios :
    LET sc == doc.scenarios[i]
        F == LatestMetricsOf(resultFiles,
                             VersionOrmId(doc.ormName, doc.versions[1]),
                             sc.scenarioId)
        L == LatestMetricsOf(resultFiles,
                             VersionOrmId(doc.ormName,
                                          doc.versions[Len(doc.versions)]),
                             sc.scenarioId)
        changes == doc.summary.significantChanges
        listed == {j \in DOMAIN changes :
                     changes[j].scenarioId = sc.scenarioId}
    IN  (Cardinality(F) = 1 /\ Cardinality(L) = 1) =>
          LET change == PercentChange(TheOne(F).median, TheOne(L).median)
          IN  /\ sc.trend = ExpectedTrend(change)
              /\ Cardinality(listed)
                   = IF Abs(change.num) > 10 * change.den THEN 1 ELSE 0
              /\ \A j \in listed :
                   changes[j].type = IF change.num < 0 THEN "improvement"
                                     ELSE "regression"

(* C19: in a stored version comparison each listed scenario's trend is that
   of the change of median latency from the first to the last requested
   version (improving below -5%, degrading above 5%, else stable), and the
   scenario is a significant change exactly when the magnitude exceeds 10%,
   an improvement when latency fell and a regression when it rose. *)
C19_VersionTrend ==
  \A f \in DOMAIN versionComparisons :
    VersionTrendsMatch(versionComparisons[f])

(* The same statement for stores in which no run holds two libraries. *)
VersionTrendInSeparateRuns ==
  OneLibraryPerRun(resultFiles) => C19_VersionTrend

(* C21: a run requested with an empty library list or an empty scenario list
   is rejected before any I/O: startRun raises, no run directory or metadata
   document is created and no run becomes open. *)
C21_EmptyRunRejected ==
  [][\A ormIds \in OrmIdLists, scenarioIds \in ScenarioIdLists :
       ((ormIds = <<>> \/ scenarioIds = <<>>)
          /\ startRun(ormIds, scenarioIds)) =>
         /\ ~lastOp'.ok
         /\ UNCHANGED <<currentRunId, metadataFiles>>]_vars

StoredFor(files, runId) == {k \in DOMAIN files : k[1] = runId}

StoredForLibrary(files, runId, ormId) ==
  {k \in StoredFor(files, runId) : k[2] = ormId}

CountsMatchStore(md, files, runId) ==
  /\ md.summary.totalScenarios = Cardinality(StoredFor(files, runId))
  /\ \A i \in DOMAIN md.testedORMs :
       md.testedORMs[i].scenariosRun =
         Cardinality(StoredForLibrary(files, runId, md.testedORMs[i].ormId))

(* C25: saveResult in an open run keeps the run summary equal to the store:
   when totalScenarios was the number of distinct measurements stored for the
   run and every library's scenariosRun the number stored for that library,
   they still are after the save, also when the save overwrites a
   measurement of the same library, category and scenario. *)
C25_SummaryCountsDistinct ==
  [][\A k \in LedgerKeys, metrics \in LedgerMetrics :
       (/\ currentRunId # NoRun
        /\ CountsMatchStore(metadataFiles[currentRunId], resultFiles,
                            currentRunId)
        /\ saveResult(k[1], k[3], k[2], metrics)) =>
         CountsMatchStore(metadataFiles'[currentRunId], resultFiles',
                          currentRunId)]_vars

(* C26: the persisted metadata of the open run is arithmetically consistent:
   totalScenarios = successfulTests + failedTests = the sum of scenariosRun
   over the library rows, each row has scenariosRun = scenariosSucceeded +
   scenariosFailed, and no library id has two rows. *)
C26_MetadataConsistent ==
  currentRunId # NoRun =>
    LET md == metadataFiles[currentRunId]
        rows == md.testedORMs
    IN  /\ md.summary.totalScenarios =
             md.summary.successfulTests + md.summary.failedTests
        /\ md.summary.totalScenarios =
             SumSeq(MapSeq(rows, LAMBDA o : o.scenariosRun))
        /\ \A i \in DOMAIN rows :
             rows[i].scenariosRun =
               rows[i].scenariosSucceeded + rows[i].scenariosFailed
        /\ \A i, j \in DOMAIN rows :
             rows[i].ormId = rows[j].ormId => i = j

C26_Witness ==
  /\ currentRunId # NoRun
  /\ lastOp.name = "saveResult"
  /\ lastOp.ok
  /\ metadataFiles[currentRunId].summary.totalScenarios = 2
  /\ metadataFiles[currentRunId].summary.failedTests = 1
  /\ Len(metadataFiles[currentRunId].testedORMs) = 1

(***************************************************************************)
(* Claims about the overall winner of an ORM comparison                    *)
(***************************************************************************)

WinsOf(doc, ormId) ==
  Cardinality({i \in DOMAIN doc.scenarios :
                 doc.scenarios[i].winner.ormId = ormId})

MostWins(doc) == MaxOf({WinsOf(doc, doc.orms[i]) : i \in DOMAIN doc.orms})

(* the first library, in the order the comparison lists them, with the
   greatest number of scenario wins *)
FirstWithMostWins(doc) ==
  doc.orms[MinOf({i \in DOMAIN doc.orms :
                    WinsOf(doc, doc.orms[i]) = MostWins(doc)})]

OverallWinnerIsFirstWithMostWins(doc) ==
  /\ doc.overallWinner.ormId = FirstWithMostWins(doc)
  /\ doc.overallWinner.winsCount = WinsOf(doc, doc.overallWinner.ormId)

(* C23: in every stored ORM comparison the overall winner is the library
   with the greatest number of per-scenario wins, the first one in library
   iteration order when several libraries tie on the maximum, and winsCount
   is that library's number of scenario wins. *)
C23_OverallWinnerMostWins ==
  \A r \in DOMAIN ormComparisons :
    OverallWinnerIsFirstWithMostWins(ormComparisons[r])

(* The same statement for the comparisons that list at least one scenario. *)
OverallWinnerMostWinsOfCompared ==
  \A r \in DOMAIN ormComparisons :
    ormComparisons[r].scenarios # <<>> =>
      OverallWinnerIsFirstWithMostWins(ormComparisons[r])

TiedComparisonStored ==
  \E r \in DOMAIN ormComparisons :
    LET doc == ormComparisons[r]
    IN  /\ Len(doc.scenarios) = 2
        /\ doc.scenarios[1].winner.ormId = "b"
        /\ doc.scenarios[2].winner.ormId = "a"
        /\ doc.overallWinner.ormId = "a"

(* C27: the overall winner of every stored ORM comparison is one of the
   libraries the comparison lists, also when it lists no scenario. *)
C27_OverallWinnerIsListed ==
  \A r \in DOMAIN ormComparisons :
    ormComparisons[r].overallWinner.ormId \in Range(ormComparisons[r].orms)

(***************************************************************************)
(* Claims about the timeline as a list of entries                          *)
(***************************************************************************)

StoredEntries(tls, ormId) ==
  IF ormId \in DOMAIN tls THEN tls[ormId].dataPoints ELSE <<>>

(* C24: updateORMTimeline is a pure append.  When the library has
   measurements in the run, the entries stored before (none when the file
   is missing) are, unchanged and in the same order, a prefix of the new
   entry list, followed by exactly one new entry for the given run; when the
   library has no measurement in the run the stored timelines are left
   unchanged.  No other library's timeline changes. *)
C24_TimelinePureAppend ==
  [][\A runId \in StoreRunIds, ormId \in MgrORMs :
       updateORMTimeline(runId, ormId) =>
         IF HT_loadORMResultsFromRun(resultFiles, runId, ormId) = <<>>
         THEN timelines' = timelines
         ELSE LET old == StoredEntries(timelines, ormId)
                  new == StoredEntries(timelines', ormId)
              IN  /\ Len(new) = Len(old) + 1
                  /\ SubSeq(new, 1, Len(old)) = old
                  /\ new[Len(new)].runId = runId
                  /\ \A o \in (DOMAIN timelines' \cup DOMAIN timelines)
                                \ {ormId} :
                       /\ o \in DOMAIN timelines
                       /\ o \in DOMAIN timelines'
                       /\ timelines'[o] = timelines[o]]_vars

C24_Witness ==
  /\ lastOp.name = "updateORMTimeline"
  /\ lastOp.overwrote
  /\ HT_loadORMResultsFromRun(resultFiles, lastOp.run, lastOp.key[1]) # <<>>
  /\ Len(timelines[lastOp.key[1]].dataPoints) = 2
  /\ timelines[lastOp.key[1]].dataPoints[1].runId # lastOp.run

Ascending(runIds) ==
  \A i, j \in DOMAIN runIds : i < j => runIds[i] <= runIds[j]

(* C29: in every stored timeline the entries are in ascending run-id order
   and every regression alert goes from an earlier run to a later one. *)
C29_TimelineAscending ==
  \A o \in DOMAIN timelines :
    /\ Ascending(MapSeq(timelines[o].dataPoints, LAMBDA dp : dp.runId))
    /\ \A i \in DOMAIN timelines[o].regressions :
         timelines[o].regressions[i].fromRun
           < timelines[o].regressions[i].toRun

(***************************************************************************)
(* Claims about the source of a version's metrics                          *)
(***************************************************************************)

(* the metrics of the stored measurements of scenario scenarioId by the
   library ormId *)
OwnMetrics(files, ormId, scenarioId) ==
  {files[k].metrics : k \in {x \in DOMAIN files :
                               x[2] = ormId /\ x[4] = scenarioId}}

VersionMetricsAreOwn(files, comparison) ==
  \A i \in DOMAIN comparison.scenarios :
    \A v \in DOMAIN comparison.scenarios[i].versionResults :
      LET sc == comparison.scenarios[i]
      IN  sc.versionResults[v] # <<>> =>
            sc.versionResults[v][1]
              \in OwnMetrics(files, VersionOrmId(comparison.ormName, v),
                             sc.scenarioId)

(* C28: the metrics a version comparison records for version v of a library
   are those of a stored measurement whose library id is that library at
   version v.  The written document holds no metrics (versionResults is
   serialised as {}), so the statement is about the comparison object
   compareVersions builds and derives the trends from. *)
C28_VersionMetricsAreOwn ==
  [][\A versions \in VersionLists :
       (Len(versions) >= 2 /\ compareVersions(VerName, versions)) =>
         VersionMetricsAreOwn(resultFiles,
                              BuildVersionComparison(resultFiles, VerName,
                                                     versions, now))]_vars

(* The same statement for stores in which no run holds two libraries. *)
VersionMetricsAreOwnInSeparateRuns ==
  [][\A versions \in VersionLists :
       (/\ Len(versions) >= 2
        /\ OneLibraryPerRun(resultFiles)
        /\ compareVersions(VerName, versions)) =>
         VersionMetricsAreOwn(resultFiles,
                              BuildVersionComparison(resultFiles, VerName,
                                                     versions, now))]_vars

(***************************************************************************)
(* Claims about the comparison views of the UI                             *)
(***************************************************************************)

(* C30: after generateComparisonViews(runId) every UI comparison document,
   the all-libraries view and each per-category view, describes run runId:
   its baselineRun is runId, also when no comparison was written for runId
   and latest.json holds the comparison of another run. *)
C30_ViewsDescribeRun ==
  [][\A runId \in StoreRunIds :
       generateComparisonViews(runId) =>
         \A f \in DOMAIN uiComparisons' :
           uiComparisons'[f].baselineRun = runId]_vars

(***************************************************************************)
(* Claims about failures inside the sweeps                                 *)
(***************************************************************************)

(* the files of the map docs other than those named by faults *)
Unfaulted(docs, File(_), faults) ==
  [k \in {x \in DOMAIN docs : File(x) \notin faults} |-> docs[k]]

(* st is what the sweep without faults gives (clean) for every file that is
   not named by faults *)
SameButFaulted(st, clean, faults) ==
  /\ Unfaulted(st.byOrm, ByOrmFile, faults)
       = Unfaulted(clean.byOrm, ByOrmFile, faults)
  /\ Unfaulted(st.byScenario, ByScenarioFile, faults)
       = Unfaulted(clean.byScenario, ByScenarioFile, faults)
  /\ Unfaulted(st.byCategory, ByCategoryFile, faults)
       = Unfaulted(clean.byCategory, ByCategoryFile, faults)
  /\ Unfaulted(st.timelines, TimelineFile, faults)
       = Unfaulted(clean.timelines, TimelineFile, faults)
  /\ ComparisonsDir \notin faults =>
       /\ st.ormComparisons = clean.ormComparisons
       /\ st.latestComparison = clean.latestComparison
  /\ UIDataDir \notin faults =>
       st.uiComparisons = ComparisonViewsAfter(uiComparisons,
                                               st.latestComparison)

EntriesOfRun(tls, ormId, runId) ==
  Cardinality({i \in DOMAIN StoredEntries(tls, ormId) :
                 StoredEntries(tls, ormId)[i].runId = runId})

(* C22: a failure inside a sweep does not abort it.  In
   generateAllAggregations(runId) of a stored run, every file other than the
   failing one is written as it is by the sweep without the failure, and the
   comparison views are still built from the latest comparison; in
   regenerateAllAggregations, when the sweep of one run fails, every other
   run is still processed: each library it measured gets one more timeline
   entry for it. *)
C22_SweepContinuesAfterFailure ==
  [][/\ \A runId \in StoreRunIds, faults \in FaultSets :
          (/\ generateAllAggregations(runId, faults)
           /\ ~RunNotFound(metadataFiles, runId, faults)) =>
            SameButFaulted(DerivedState',
                           generateAllAggregationsFrom(
                             DerivedState, metadataFiles, resultFiles,
                             runId, now, {}),
                           faults)
     /\ \A faults \in FaultSets :
          regenerateAllAggregations(faults) =>
            \A r \in RunDirs(metadataFiles, resultFiles), o \in MgrORMs :
              (/\ ~RunNotFound(metadataFiles, r, faults)
               /\ TimelineFile(o) \notin faults
               /\ HT_loadORMResultsFromRun(resultFiles, r, o) # <<>>) =>
                EntriesOfRun(timelines', o, r)
                  = EntriesOfRun(timelines, o, r) + 1]_vars

C22_Witness ==
  /\ lastOp.name = "generateAllAggregations"
  /\ lastOp.ok
  /\ lastOp.key = <<{ByOrmFile("a")}>>
  /\ loadORMResultsFromRun(resultFiles, lastOp.run, "a") # <<>>
  /\ "a" \notin DOMAIN byOrm
  /\ "b" \in DOMAIN byOrm
  /\ "s1" \in DOMAIN byScenario
  /\ "a" \in DOMAIN timelines
  /\ latestComparison # NoDoc
  /\ AllOrmsView \in DOMAIN uiComparisons

C22_RegenerateWitness ==
  /\ lastOp.name = "regenerateAllAggregations"
  /\ lastOp.key = <<{MetadataFile(1)}>>
  /\ 1 \in DOMAIN metadataFiles
  /\ \E o \in DOMAIN timelines :
       /\ EntriesOfRun(timelines, o, 0) = 1
       /\ HT_loadORMResultsFromRun(resultFiles, 1, o) # <<>>
       /\ EntriesOfRun(timelines, o, 1) = 0

====
